---- MODULE Spec2Model ----
(***************************************************************************)
(* A model of the BPSR capture-parsing pipeline: the resynchronising       *)
(* framer (FrameReader), its decompression helper, and the decode command  *)
(* that drives it.  Byte strings are sequences of integers 0..255, read    *)
(* with 0-based offsets as in the source.                                  *)
(***************************************************************************)
EXTENDS Integers, Sequences, FiniteSets, TLC

VARIABLES
    data,       \* the capture bytes handed to iter_notify_frames
    prefix,     \* input bookkeeping: the leading bytes of data that were prepended
    reader,     \* the FrameReader object: its six counters
    stack,      \* the live _parse_stream activations, outermost first
    yielded,    \* the NotifyFrames the generator has yielded so far
    visited,    \* history: one entry per cursor position the parser examined
    decoder,    \* the decoder main() constructed
    output,     \* the records written to the output file, in order
    method_hist, \* main's Counter of decoded method ids
    pc,         \* "start", "parse" (generator running), "handed" (for body
                \* running), "done" (generator exhausted), "raised";
                \* "idle" while another program of the package runs
    trade,      \* the run of the trading-centre extractor: a record, see TradeIdle
    call,       \* a direct call of one function of the package, as the unit
                \* tests make them: the function, its arguments, its outcome
    reducer,    \* the run of the combat reducer: the CombatReducer object,
                \* the lines it is given and its place in them
    catalog     \* a process that uses the item catalog: the files it can
                \* see, the cache of load_item_mapping, the calls made

\* the variables of the programs other than the decode command
other_programs == <<trade, call, reducer, catalog>>

\* the variables of the decode command
decode_command == <<data, prefix, reader, stack, yielded, visited, decoder,
                    output, method_hist, pc>>

vars == <<decode_command, other_programs>>

\* what a step of the extractor, of a direct call, of the reducer, of the
\* catalog's process leaves alone
not_trade == <<decode_command, call, reducer, catalog>>
not_call == <<decode_command, trade, reducer, catalog>>
not_reducer == <<decode_command, trade, call, catalog>>
not_catalog == <<decode_command, trade, call, reducer>>

(***************************************************************************)
(* Bounds of the model.                                                    *)
(***************************************************************************)
MaxGarbage == 4
MaxFrames == 2
MaxShortFrames == 1
MaxTradeFrames == 2
MaxTradeGarbage == 1
MaxVarintLen == 3
MaxListings == 3
MaxCliFrames == 1
MaxLines == 3
MaxSources == 2
MaxOps == 3
MaxNesting == 9

(***************************************************************************)
(* Module constants of framing.py.                                         *)
(***************************************************************************)
HEADER_SIZE == 6
ZSTD_MAGIC == <<40, 181, 47, 253>>
NOTIFY_FRAGMENT == 2
FRAMEDOWN_FRAGMENT == 6
max_decompressed_size == 10 * 1024 * 1024

(***************************************************************************)
(* Byte-string helpers.                                                    *)
(***************************************************************************)
Slice(s, from, to) == SubSeq(s, from + 1, to)

StartsWith(s, magic) ==
    /\ Len(s) >= Len(magic)
    /\ SubSeq(s, 1, Len(magic)) = magic

\* struct.unpack_from(">I", view, offset).  The model's integers are 32-bit
\* signed, so a value whose top byte is non-zero (2^24 or more) is
\* represented by 2^24: every buffer of the model is shorter than that, so
\* both comparisons the parser makes on the value come out as in the code.
U32BE(view, offset) ==
    IF view[offset + 1] > 0
    THEN 256 * 256 * 256
    ELSE view[offset + 2] * 65536 + view[offset + 3] * 256 + view[offset + 4]

\* struct.unpack_from(">H", view, offset)
U16BE(view, offset) == view[offset + 1] * 256 + view[offset + 2]

\* ">Q" and ">I" fields that are only compared for equality are kept as
\* their big-endian digits (base 256, fixed width): equal digits, equal value.
Digits(body, offset, width) == Slice(body, offset, offset + width)

(***************************************************************************)
(* The zstandard library, as the parser uses it: a stream reader that      *)
(* either raises ZstdError, or produces `size` bytes of output.  The wire  *)
(* format is replaced by a stand-in container: after the magic, a byte 0   *)
(* announces a stored block (the rest is the output), a byte 1 announces a *)
(* run whose expansion exceeds the cap, anything else is a corrupt frame.  *)
(***************************************************************************)
BombSize == 11 * 1024 * 1024

ZstdStream(bytes) ==
    IF Len(bytes) < 5 THEN [error |-> TRUE, size |-> 0, out |-> <<>>]
    ELSE IF bytes[5] = 0
        THEN [error |-> FALSE, size |-> Len(bytes) - 5, out |-> Slice(bytes, 5, Len(bytes))]
    ELSE IF bytes[5] = 1
        THEN [error |-> FALSE, size |-> BombSize, out |-> <<>>]
    ELSE [error |-> TRUE, size |-> 0, out |-> <<>>]

\* mutant: the output is taken whole, whatever its size
MaybeDecompress_Uncapped(rd, bytes, flagged) ==
    IF ~flagged \/ bytes = <<>>
    THEN [reader |-> rd, data |-> bytes, was_decompressed |-> FALSE]
    ELSE IF ~StartsWith(bytes, ZSTD_MAGIC)
    THEN [reader |-> [rd EXCEPT !.zstd_flag_without_magic = @ + 1],
          data |-> bytes, was_decompressed |-> FALSE]
    ELSE LET s == ZstdStream(bytes) IN
         IF s.error
         THEN [reader |-> [rd EXCEPT !.resync_events = @ + 1],
               data |-> bytes, was_decompressed |-> FALSE]
         ELSE [reader |-> rd, data |-> s.out, was_decompressed |-> TRUE]

\* mutant: the magic alone decides, the flag is not looked at
MaybeDecompress_Unflagged(rd, bytes, flagged) ==
    IF bytes = <<>>
    THEN [reader |-> rd, data |-> bytes, was_decompressed |-> FALSE]
    ELSE IF ~StartsWith(bytes, ZSTD_MAGIC)
    THEN [reader |-> [rd EXCEPT !.zstd_flag_without_magic = @ + (IF flagged THEN 1 ELSE 0)],
          data |-> bytes, was_decompressed |-> FALSE]
    ELSE LET s == ZstdStream(bytes) IN
         IF s.error \/ s.size > max_decompressed_size
         THEN [reader |-> [rd EXCEPT !.resync_events = @ + 1],
               data |-> bytes, was_decompressed |-> FALSE]
         ELSE [reader |-> rd, data |-> s.out, was_decompressed |-> TRUE]

\* mutant: a flagged payload without the magic is counted as a resync event
MaybeDecompress_NoMagicResync(rd, bytes, flagged) ==
    IF ~flagged \/ bytes = <<>>
    THEN [reader |-> rd, data |-> bytes, was_decompressed |-> FALSE]
    ELSE IF ~StartsWith(bytes, ZSTD_MAGIC)
    THEN [reader |-> [rd EXCEPT !.resync_events = @ + 1],
          data |-> bytes, was_decompressed |-> FALSE]
    ELSE LET s == ZstdStream(bytes) IN
         IF s.error \/ s.size > max_decompressed_size
         THEN [reader |-> [rd EXCEPT !.resync_events = @ + 1],
               data |-> bytes, was_decompressed |-> FALSE]
         ELSE [reader |-> rd, data |-> s.out, was_decompressed |-> TRUE]

\* FrameReader._maybe_decompress: the reader after the call, the returned
\* bytes and the returned flag.
MaybeDecompress(rd, bytes, flagged) ==
    IF ~flagged \/ bytes = <<>>
    THEN [reader |-> rd, data |-> bytes, was_decompressed |-> FALSE]
    ELSE IF ~StartsWith(bytes, ZSTD_MAGIC)
    THEN [reader |-> [rd EXCEPT !.zstd_flag_without_magic = @ + 1],
          data |-> bytes, was_decompressed |-> FALSE]
    ELSE LET s == ZstdStream(bytes) IN
         IF s.error \/ s.size > max_decompressed_size
         THEN [reader |-> [rd EXCEPT !.resync_events = @ + 1],
               data |-> bytes, was_decompressed |-> FALSE]
         ELSE [reader |-> rd, data |-> s.out, was_decompressed |-> TRUE]

\* the value None of the source
None == [none |-> TRUE]

\* mutant: a truncated Notify body is passed over without a resync event
ParseNotify_ShortSilent(rd, body, is_zstd, frame_offset) ==
    IF Len(body) < 16
    THEN [reader |-> rd, notify |-> None]
    ELSE LET d == MaybeDecompress(rd, Slice(body, 16, Len(body)), is_zstd) IN
         [reader |-> d.reader,
          notify |-> [service_uid |-> Digits(body, 0, 8),
                      stub_id |-> Digits(body, 8, 4),
                      method_id |-> Digits(body, 12, 4),
                      payload |-> d.data,
                      was_compressed |-> d.was_decompressed,
                      offset |-> frame_offset]]

\* FrameReader._parse_notify: the reader after the call and the NotifyFrame
\* (or None).
ParseNotify(rd, body, is_zstd, frame_offset) ==
    IF Len(body) < 16
    THEN [reader |-> [rd EXCEPT !.resync_events = @ + 1], notify |-> None]
    ELSE LET d == MaybeDecompress(rd, Slice(body, 16, Len(body)), is_zstd) IN
         [reader |-> d.reader,
          notify |-> [service_uid |-> Digits(body, 0, 8),
                      stub_id |-> Digits(body, 8, 4),
                      method_id |-> Digits(body, 12, 4),
                      payload |-> d.data,
                      was_compressed |-> d.was_decompressed,
                      offset |-> frame_offset]]

(***************************************************************************)
(* FrameReader._parse_stream, one loop iteration at a time.  A machine m   *)
(* is [reader, stack, yielded]; an activation is [view, offset].           *)
(***************************************************************************)
Activation(view) == [view |-> view, offset |-> 0]

Top(m) == m.stack[Len(m.stack)]

SetTopOffset(st, off) == [st EXCEPT ![Len(st)].offset = off]

\* the while condition
LoopCond(a) == a.offset + HEADER_SIZE <= Len(a.view)

\* mutant: the compression flag is taken for part of the fragment type
Header_Unmasked(a) ==
    LET pkt_type == U16BE(a.view, a.offset + 4) IN
    [frame_len |-> U32BE(a.view, a.offset),
     fragment_type |-> pkt_type,
     is_zstd |-> pkt_type >= 32768]

Header(a) ==
    LET pkt_type == U16BE(a.view, a.offset + 4) IN
    [frame_len |-> U32BE(a.view, a.offset),
     fragment_type |-> pkt_type % 32768,
     is_zstd |-> pkt_type >= 32768]

\* the two length checks
FramingMiss(a) ==
    \/ Header(a).frame_len < HEADER_SIZE
    \/ a.offset + Header(a).frame_len > Len(a.view)

FrameEnd(a) == a.offset + Header(a).frame_len

Body(a) == Slice(a.view, a.offset + HEADER_SIZE, FrameEnd(a))

Bump(hist, key) ==
    IF key \in DOMAIN hist THEN [hist EXCEPT ![key] = @ + 1] ELSE hist @@ (key :> 1)

\* mutant: a frame of a nested stream is not counted
Accept_TopOnly(rd, a) ==
    IF a.view = data
    THEN [rd EXCEPT !.frames_parsed = @ + 1,
                    !.fragment_histogram = Bump(@, Header(a).fragment_type)]
    ELSE rd

\* lines 172-175: the frame is accepted
Accept(rd, a) ==
    [rd EXCEPT !.frames_parsed = @ + 1,
               !.fragment_histogram = Bump(@, Header(a).fragment_type)]

\* mutant: the cursor stays where it is
MissStep_Stuck(m) == [m EXCEPT !.reader.resync_events = @ + 1]

\* mutant: the miss is not counted
MissStep_Uncounted(m) ==
    [m EXCEPT !.stack = SetTopOffset(@, Top(m).offset + 1)]

\* a framing miss: slide one byte
MissStep(m) ==
    [m EXCEPT !.reader.resync_events = @ + 1,
              !.stack = SetTopOffset(@, Top(m).offset + 1)]

\* a Notify frame
NotifyStep(m) ==
    LET a == Top(m)
        p == ParseNotify(Accept(m.reader, a), Body(a), Header(a).is_zstd, a.offset)
    IN  IF p.notify = None
        THEN [m EXCEPT !.reader = p.reader,
                       !.stack = SetTopOffset(@, FrameEnd(a))]
        ELSE [m EXCEPT !.reader = [p.reader EXCEPT !.notify_frames = @ + 1],
                       !.yielded = Append(@, p.notify),
                       !.stack = SetTopOffset(@, FrameEnd(a))]

\* mutant: the nested stream is queued behind the streams being parsed
FrameDownStep_Deferred(m) ==
    LET a == Top(m)
        rd == Accept(m.reader, a)
        body == Body(a)
    IN  IF Len(body) >= 4
        THEN LET d == MaybeDecompress(rd, Slice(body, 4, Len(body)), Header(a).is_zstd) IN
             IF d.data # <<>>
             THEN [m EXCEPT !.reader = d.reader,
                            !.stack = <<Activation(d.data)>> \o SetTopOffset(@, FrameEnd(a))]
             ELSE [m EXCEPT !.reader = d.reader,
                            !.stack = SetTopOffset(@, FrameEnd(a))]
        ELSE [m EXCEPT !.reader = [rd EXCEPT !.resync_events = @ + 1],
                       !.stack = SetTopOffset(@, FrameEnd(a))]

\* mutant: a FrameDown too short for its sequence number is passed over
\* without a resync event
FrameDownStep_ShortSilent(m) ==
    LET a == Top(m)
        rd == Accept(m.reader, a)
        body == Body(a)
    IN  IF Len(body) > 4
        THEN LET d == MaybeDecompress(rd, Slice(body, 4, Len(body)), Header(a).is_zstd) IN
             IF d.data # <<>>
             THEN [m EXCEPT !.reader = d.reader,
                            !.stack = Append(SetTopOffset(@, FrameEnd(a)), Activation(d.data))]
             ELSE [m EXCEPT !.reader = d.reader,
                            !.stack = SetTopOffset(@, FrameEnd(a))]
        ELSE [m EXCEPT !.reader = rd,
                       !.stack = SetTopOffset(@, FrameEnd(a))]

\* a FrameDown frame: the nested stream is parsed by a new activation; the
\* carrier's cursor is at the frame's end when that activation returns
FrameDownStep(m) ==
    LET a == Top(m)
        rd == Accept(m.reader, a)
        body == Body(a)
    IN  IF Len(body) >= 4
        THEN LET d == MaybeDecompress(rd, Slice(body, 4, Len(body)), Header(a).is_zstd) IN
             IF d.data # <<>>
             THEN [m EXCEPT !.reader = d.reader,
                            !.stack = Append(SetTopOffset(@, FrameEnd(a)), Activation(d.data))]
             ELSE [m EXCEPT !.reader = d.reader,
                            !.stack = SetTopOffset(@, FrameEnd(a))]
        ELSE [m EXCEPT !.reader = [rd EXCEPT !.resync_events = @ + 1],
                       !.stack = SetTopOffset(@, FrameEnd(a))]

\* any other fragment type
OtherStep(m) ==
    [m EXCEPT !.reader = Accept(m.reader, Top(m)),
              !.stack = SetTopOffset(@, FrameEnd(Top(m)))]

\* the while condition fails: the activation returns
ReturnStep(m) == [m EXCEPT !.stack = SubSeq(@, 1, Len(@) - 1)]

Step(m) ==
    LET a == Top(m) IN
    IF ~LoopCond(a) THEN ReturnStep(m)
    ELSE IF FramingMiss(a) THEN MissStep(m)
    ELSE IF Header(a).fragment_type = NOTIFY_FRAGMENT THEN NotifyStep(m)
    ELSE IF Header(a).fragment_type = FRAMEDOWN_FRAGMENT THEN FrameDownStep(m)
    ELSE OtherStep(m)

\* FrameReader.__init__
NewReader ==
    [bytes_scanned |-> 0, frames_parsed |-> 0, resync_events |-> 0,
     notify_frames |-> 0, fragment_histogram |-> <<>>,
     zstd_flag_without_magic |-> 0]

\* FrameReader.iter_notify_frames, up to the first loop test
StartMachine(rd, bytes) ==
    [reader |-> [rd EXCEPT !.bytes_scanned = @ + Len(bytes)],
     stack |-> <<Activation(bytes)>>,
     yielded |-> <<>>]

RECURSIVE Run(_)
Run(m) == IF m.stack = <<>> THEN m ELSE Run(Step(m))

\* list(FrameReader().iter_notify_frames(bytes)), with the reader it leaves
ParseAll(bytes) == Run(StartMachine(NewReader, bytes))

(***************************************************************************)
(* The protobuf runtime, as the decoders use it: ParseFromString followed  *)
(* by MessageToDict.  The stand-in walks the wire format (varint tags,     *)
(* wire types 0, 1, 2 and 5) and returns the fields it finds; a truncated  *)
(* field, a field number 0 or another wire type is a DecodeError.          *)
(***************************************************************************)
RECURSIVE ReadVarint(_, _)
ReadVarint(bytes, pos) ==
    IF pos >= Len(bytes) THEN [ok |-> FALSE, value |-> 0, next |-> pos]
    ELSE LET b == bytes[pos + 1] IN
         IF b < 128 THEN [ok |-> TRUE, value |-> b, next |-> pos + 1]
         ELSE LET r == ReadVarint(bytes, pos + 1) IN
              [ok |-> r.ok, value |-> (b - 128) + 128 * r.value, next |-> r.next]

DecodeError == [ok |-> FALSE, fields |-> <<>>]

RECURSIVE ProtoWalk(_, _)
ProtoWalk(bytes, pos) ==
    IF pos >= Len(bytes) THEN [ok |-> TRUE, fields |-> <<>>]
    ELSE
    LET t == ReadVarint(bytes, pos)
        wire == t.value % 8
        field == t.value \div 8
        Field(value, next) ==
            LET rest == ProtoWalk(bytes, next) IN
            IF rest.ok
            THEN [ok |-> TRUE, fields |-> <<[field |-> field, value |-> value]>> \o rest.fields]
            ELSE DecodeError
        Fixed(width) ==
            IF t.next + width > Len(bytes) THEN DecodeError
            ELSE Field(Slice(bytes, t.next, t.next + width), t.next + width)
    IN  IF ~t.ok \/ field = 0 THEN DecodeError
        ELSE IF wire = 0
        THEN LET v == ReadVarint(bytes, t.next) IN
             IF v.ok THEN Field(v.value, v.next) ELSE DecodeError
        ELSE IF wire = 2
        THEN LET n == ReadVarint(bytes, t.next) IN
             IF n.ok /\ n.next + n.value <= Len(bytes)
             THEN Field(Slice(bytes, n.next, n.next + n.value), n.next + n.value)
             ELSE DecodeError
        ELSE IF wire = 1 THEN Fixed(8)
        ELSE IF wire = 5 THEN Fixed(4)
        ELSE DecodeError

ProtoParse(payload) == ProtoWalk(payload, 0)

(***************************************************************************)
(* The combat decoders.                                                    *)
(***************************************************************************)
SERVICE_UID == <<0, 0, 0, 0, 99, 51, 83, 66>>

Method(n) == <<0, 0, 0, n>>

METHOD_TO_MESSAGE ==
    (Method(6) :> "blueprotobuf_package.SyncNearEntities")
    @@ (Method(21) :> "blueprotobuf_package.SyncContainerData")
    @@ (Method(22) :> "blueprotobuf_package.SyncContainerDirtyData")
    @@ (Method(43) :> "blueprotobuf_package.SyncServerTime")
    @@ (Method(45) :> "blueprotobuf_package.SyncNearDeltaInfo")
    @@ (Method(46) :> "blueprotobuf_package.SyncToMeDeltaInfo")

HexDigit == <<"0", "1", "2", "3", "4", "5", "6", "7",
              "8", "9", "a", "b", "c", "d", "e", "f">>

RECURSIVE Hex(_)
Hex(digits) ==
    IF digits = <<>> THEN ""
    ELSE HexDigit[(Head(digits) \div 16) + 1] \o HexDigit[(Head(digits) % 16) + 1]
         \o Hex(Tail(digits))

\* DecodedRecord(...) as both decoders build it
DecodedRecord(frame, message_type, fields) ==
    [service_uid |-> "0x" \o Hex(frame.service_uid),
     stub_id |-> frame.stub_id,
     method_id |-> frame.method_id,
     message_type |-> message_type,
     data |-> fields]

Returned(record) == [raised |-> FALSE, record |-> record]
Raised == [raised |-> TRUE, record |-> None]

\* mutant: the service filter is missing
CombatDecoder_decode_AnyService(frame) ==
    IF frame.method_id \notin DOMAIN METHOD_TO_MESSAGE THEN Returned(None)
    ELSE LET message == ProtoParse(frame.payload) IN
         IF ~message.ok THEN Raised
         ELSE Returned(DecodedRecord(frame, METHOD_TO_MESSAGE[frame.method_id],
                                     message.fields))

\* CombatDecoder.decode: ParseFromString is not guarded, a DecodeError
\* leaves the method
CombatDecoder_decode(frame) ==
    IF frame.service_uid # SERVICE_UID THEN Returned(None)
    ELSE IF frame.method_id \notin DOMAIN METHOD_TO_MESSAGE THEN Returned(None)
    ELSE LET message == ProtoParse(frame.payload) IN
         IF ~message.ok THEN Raised
         ELSE Returned(DecodedRecord(frame, METHOD_TO_MESSAGE[frame.method_id],
                                     message.fields))

\* combat_method_map.json as _load_mapping reads it: the method ids that
\* have a static message class.  The file is not among the sources; the
\* recognised set of the specification stands for its keys.
MethodSpecs == DOMAIN METHOD_TO_MESSAGE

\* CombatDecoderV2.decode: `static` are the method ids whose spec is mapped
\* and whose generated module resolves
CombatDecoderV2_decode(static, frame) ==
    IF frame.service_uid # SERVICE_UID THEN Returned(None)
    ELSE LET message == ProtoParse(frame.payload) IN
         IF frame.method_id \in static /\ message.ok
         THEN Returned(DecodedRecord(frame, METHOD_TO_MESSAGE[frame.method_id],
                                     message.fields))
         ELSE CombatDecoder_decode(frame)

\* decoder.decode(frame) for the decoder main() constructed
Decode(dec, frame) ==
    IF dec.version = "v2" THEN CombatDecoderV2_decode(dec.static, frame)
    ELSE CombatDecoder_decode(frame)

\* the decoders main() can construct: v1, v2 without a mapping file or
\* generated modules, v2 with all of them
Decoders ==
    { [version |-> "v1", static |-> {}],
      [version |-> "v2", static |-> {}],
      [version |-> "v2", static |-> MethodSpecs] }

(***************************************************************************)
(* Inputs: captures built from the wire layout.                            *)
(***************************************************************************)
EncU32(n) == <<0, n \div 65536, (n \div 256) % 256, n % 256>>

EncU16(n) == <<n \div 256, n % 256>>

EncodeFrame(pkt_type, body) == EncU32(HEADER_SIZE + Len(body)) \o EncU16(pkt_type) \o body

ZSTD_FLAG == 32768

RECURSIVE Concat(_)
Concat(ss) == IF ss = <<>> THEN <<>> ELSE Head(ss) \o Concat(Tail(ss))

SeqsUpTo(S, n) == UNION {[1..k -> S] : k \in 0..n}

OtherUid == <<0, 0, 0, 0, 0, 0, 0, 1>>

NotifyFrameBytes(flag, uid, stub, method, payload) ==
    EncodeFrame(flag + NOTIFY_FRAGMENT, uid \o <<0, 0, 0, stub>> \o method \o payload)

FrameDownBytes(flag, seq, nested) ==
    EncodeFrame(flag + FRAMEDOWN_FRAGMENT, <<0, 0, 0, seq>> \o nested)

Stored(bytes) == ZSTD_MAGIC \o <<0>> \o bytes

NA == NotifyFrameBytes(0, SERVICE_UID, 1, Method(46), <<>>)
NB == NotifyFrameBytes(0, SERVICE_UID, 2, Method(6), <<8, 1>>)
NC == NotifyFrameBytes(0, OtherUid, 3, Method(46), <<10>>)
ND == NotifyFrameBytes(0, SERVICE_UID, 4, Method(7), <<10>>)
NE == NotifyFrameBytes(0, SERVICE_UID, 5, Method(6), <<10>>)

\* well-formed, uncompressed frames
ValidFrames ==
    { NA, NB,
      EncodeFrame(5, <<97>>),
      FrameDownBytes(0, 1, NA \o NB) }

PlainFrames ==
    ValidFrames \cup
    { NC, ND, NE,
      FrameDownBytes(0, 1, <<>>),
      FrameDownBytes(0, 2, FrameDownBytes(0, 3, NB) \o NA) }

\* validly framed, but flawed, flagged or carrying something else than frames
OddFrames ==
    { EncodeFrame(NOTIFY_FRAGMENT, <<97, 98>>),
      EncodeFrame(FRAMEDOWN_FRAGMENT, <<97, 98>>),
      FrameDownBytes(0, 1, <<116, 116>>),
      FrameDownBytes(0, 1, <<0, 0, 0, 8, 0, 0, 0>>),
      NotifyFrameBytes(ZSTD_FLAG, SERVICE_UID, 9, Method(46), Stored(<<8, 1>>)),
      NotifyFrameBytes(ZSTD_FLAG, SERVICE_UID, 6, Method(46), ZSTD_MAGIC \o <<9>>),
      NotifyFrameBytes(ZSTD_FLAG, SERVICE_UID, 7, Method(46), ZSTD_MAGIC \o <<1, 65>>),
      NotifyFrameBytes(ZSTD_FLAG, SERVICE_UID, 8, Method(46), <<8, 1>>),
      NotifyFrameBytes(0, SERVICE_UID, 11, Method(46), Stored(<<8, 1>>)),
      FrameDownBytes(ZSTD_FLAG, 4, Stored(NA)),
      FrameDownBytes(ZSTD_FLAG, 5, ZSTD_MAGIC \o <<9, 0, 0>>),
      FrameDownBytes(ZSTD_FLAG, 6, NB) }

GarbageBytes == {0, 7}

NF == NotifyFrameBytes(0, SERVICE_UID, 10, Method(43), <<8, 2>>)

\* carriers between frames: Notify, carrier of (Notify, carrier, Notify), Notify
NestedCaptures ==
    { [prefix |-> <<>>,
       data |-> NA \o FrameDownBytes(0, 7, NB \o FrameDownBytes(0, 8, NC) \o ND) \o NF],
      [prefix |-> <<>>,
       data |-> NF \o FrameDownBytes(0, 7, FrameDownBytes(0, 8, NA \o NB)) \o NC],
      [prefix |-> <<>>,
       data |-> NB \o FrameDownBytes(0, 9, NE \o NA) \o NF] }

\* inner carried by n FrameDown frames, one inside the other
RECURSIVE Nest(_, _)
Nest(n, inner) == IF n = 0 THEN inner ELSE FrameDownBytes(0, n, Nest(n - 1, inner))

\* a Notify frame at the bottom of a run of nested carriers
DeepCapture == [prefix |-> <<>>, data |-> Nest(MaxNesting, NA)]

\* a capture is either any short run of frames, or a run of well-formed
\* frames behind a few prepended bytes, or one of the nested captures
Captures ==
    NestedCaptures \cup {DeepCapture} \cup
    {[prefix |-> <<>>, data |-> Concat(fs)] :
        fs \in SeqsUpTo(PlainFrames \cup OddFrames, MaxFrames)}
    \cup
    {[prefix |-> g, data |-> g \o Concat(fs)] :
        g \in SeqsUpTo(GarbageBytes, MaxGarbage), fs \in SeqsUpTo(ValidFrames, MaxFrames)}

\* the shorter captures: at most MaxShortFrames frames, or one well-formed
\* frame behind a few prepended bytes
ShortCaptures ==
    {[prefix |-> <<>>, data |-> Concat(fs)] :
        fs \in SeqsUpTo(PlainFrames \cup OddFrames, MaxShortFrames)}
    \cup
    {[prefix |-> g, data |-> g \o f] :
        g \in SeqsUpTo(GarbageBytes, MaxGarbage), f \in ValidFrames}

(***************************************************************************)
(* The run: main() of the decode command.  The generator is advanced one   *)
(* loop iteration of _parse_stream at a time; when it yields, the body of  *)
(* main's for loop runs before the generator is resumed.                   *)
(***************************************************************************)
Machine == [reader |-> reader, stack |-> stack, yielded |-> yielded]

SetMachine(m) ==
    /\ reader' = m.reader
    /\ stack' = m.stack
    /\ yielded' = m.yielded

\* history: the position examined by this step, and whether it yielded
Visit ==
    visited' = Append(visited,
        [depth |-> Len(stack),
         offset |-> stack[Len(stack)].offset,
         view |-> stack[Len(stack)].view,
         emitted |-> Len(yielded') > Len(yielded)])

\* the trading-centre extractor before it is given a capture
TradeIdle ==
    [pc |-> "idle", data |-> <<>>, offset |-> 0, server_seq |-> <<>>,
     nested |-> <<>>, idx |-> 0, listings |-> <<>>,
     resolver |-> [given |-> FALSE, mapping |-> <<>>], result |-> <<>>,
     via |-> "module", decoder_choice |-> "v1", available |-> FALSE,
     decoder |-> "v1", returned |-> -1, written |-> FALSE, exit_status |-> -1]

\* no reducer has been constructed
ReducerIdle ==
    [pc |-> "idle", self |-> <<>>, lines |-> <<>>, line |-> 0, pending |-> <<>>,
     pass |-> 0, passes |-> 0, first_total |-> 0, handled |-> <<>>,
     summary |-> <<>>, written |-> FALSE]

\* no process uses the item catalog
CatalogIdle ==
    [pc |-> "idle", fs |-> <<>>, cache |-> <<>>, heap |-> <<>>, log |-> <<>>]

\* no function is called directly
NoCall == [fn |-> "none", state |-> "idle", args |-> <<>>, result |-> <<>>]

InitWith(captures) ==
    /\ \E c \in captures : data = c.data /\ prefix = c.prefix
    /\ decoder \in Decoders
    /\ reader = NewReader
    /\ stack = <<>>
    /\ yielded = <<>>
    /\ visited = <<>>
    /\ output = <<>>
    /\ method_hist = <<>>
    /\ pc = "start"
    /\ trade = TradeIdle
    /\ call = NoCall
    /\ reducer = ReducerIdle
    /\ catalog = CatalogIdle

Init == InitWith(Captures)

\* reader.iter_notify_frames(raw), up to the first loop test
Start ==
    /\ pc = "start"
    /\ SetMachine(StartMachine(reader, data))
    /\ pc' = "parse"
    /\ UNCHANGED <<data, prefix, decoder, visited, output, method_hist>>
    /\ UNCHANGED other_programs

Parsing == pc = "parse" /\ stack # <<>> /\ LoopCond(Top(Machine))

Miss ==
    /\ Parsing
    /\ FramingMiss(Top(Machine))
    /\ SetMachine(MissStep(Machine))
    /\ Visit
    /\ UNCHANGED <<data, prefix, decoder, output, method_hist, pc>>
    /\ UNCHANGED other_programs

\* mutant: the generator runs on after a yield; the consumer is not resumed
Notify_Eager ==
    /\ Parsing
    /\ ~FramingMiss(Top(Machine))
    /\ Header(Top(Machine)).fragment_type = NOTIFY_FRAGMENT
    /\ SetMachine(NotifyStep(Machine))
    /\ Visit
    /\ UNCHANGED <<data, prefix, decoder, output, method_hist, pc>>
    /\ UNCHANGED other_programs

Notify ==
    /\ Parsing
    /\ ~FramingMiss(Top(Machine))
    /\ Header(Top(Machine)).fragment_type = NOTIFY_FRAGMENT
    /\ SetMachine(NotifyStep(Machine))
    /\ Visit
    /\ pc' = IF Len(yielded') > Len(yielded) THEN "handed" ELSE "parse"
    /\ UNCHANGED <<data, prefix, decoder, output, method_hist>>
    /\ UNCHANGED other_programs

FrameDown ==
    /\ Parsing
    /\ ~FramingMiss(Top(Machine))
    /\ Header(Top(Machine)).fragment_type = FRAMEDOWN_FRAGMENT
    /\ SetMachine(FrameDownStep(Machine))
    /\ Visit
    /\ UNCHANGED <<data, prefix, decoder, output, method_hist, pc>>
    /\ UNCHANGED other_programs

Other ==
    /\ Parsing
    /\ ~FramingMiss(Top(Machine))
    /\ Header(Top(Machine)).fragment_type \notin {NOTIFY_FRAGMENT, FRAMEDOWN_FRAGMENT}
    /\ SetMachine(OtherStep(Machine))
    /\ Visit
    /\ UNCHANGED <<data, prefix, decoder, output, method_hist, pc>>
    /\ UNCHANGED other_programs

\* an activation's loop ends; the outermost one ends the generator
Return ==
    /\ pc = "parse"
    /\ stack # <<>>
    /\ ~LoopCond(Top(Machine))
    /\ SetMachine(ReturnStep(Machine))
    /\ pc' = IF Len(stack) = 1 THEN "done" ELSE "parse"
    /\ UNCHANGED <<data, prefix, decoder, visited, output, method_hist>>
    /\ UNCHANGED other_programs

\* the frame main's for loop holds
Handed == yielded[Len(yielded)]

\* the for body: decode returned None
ConsumeSkip ==
    /\ pc = "handed"
    /\ Decode(decoder, Handed) = Returned(None)
    /\ pc' = "parse"
    /\ UNCHANGED <<data, prefix, decoder, reader, stack, yielded, visited,
                   output, method_hist>>
    /\ UNCHANGED other_programs

\* the for body: decode returned a record, which is counted and written
ConsumeWrite ==
    /\ pc = "handed"
    /\ ~Decode(decoder, Handed).raised
    /\ Decode(decoder, Handed).record # None
    /\ method_hist' = Bump(method_hist, Handed.method_id)
    /\ output' = Append(output, Decode(decoder, Handed).record)
    /\ pc' = "parse"
    /\ UNCHANGED <<data, prefix, decoder, reader, stack, yielded, visited>>
    /\ UNCHANGED other_programs

\* the for body: decode raised, and nothing in main catches it
ConsumeRaise ==
    /\ pc = "handed"
    /\ Decode(decoder, Handed).raised
    /\ pc' = "raised"
    /\ UNCHANGED <<data, prefix, decoder, reader, stack, yielded, visited,
                   output, method_hist>>
    /\ UNCHANGED other_programs

Next ==
    \/ Start \/ Miss \/ Notify \/ FrameDown \/ Other \/ Return
    \/ ConsumeSkip \/ ConsumeWrite \/ ConsumeRaise

Spec == Init /\ [][Next]_vars

\* the same run over the shorter captures, with the scheduling of a
\* sequential program: a step that can be taken is taken
FairInit == InitWith(ShortCaptures)

FairSpec == FairInit /\ [][Next]_vars /\ WF_vars(Next)

(***************************************************************************)
(* The trading-centre extractor (trading_center_decode.py).                *)
(***************************************************************************)
\* read_varint(data, start): the loop, with its three locals.  The bits
\* or-ed into value lie above the bits already there, so the or is a sum.
RECURSIVE read_varint_loop(_, _, _, _)
read_varint_loop(bytes, pos, shift, value) ==
    IF pos < Len(bytes)
    THEN LET b == bytes[pos + 1]
             v == value + (b % 128) * (2 ^ shift)
         IN  IF b < 128
             THEN [raised |-> FALSE, value |-> v, pos |-> pos + 1]
             ELSE read_varint_loop(bytes, pos + 1, shift + 7, v)
    ELSE [raised |-> TRUE, value |-> 0, pos |-> pos]

\* mutant: the first byte is shifted as if it were the second
read_varint_ShiftedStart(bytes, start) == read_varint_loop(bytes, start, 7, 0)

read_varint(bytes, start) == read_varint_loop(bytes, start, 0, 0)

\* maybe_decompress(data, is_zstd) of the extractor: one-shot decompress,
\* then the stream reader on ZstdError.  Both read the same frame, so a
\* corrupt frame fails both and the second ZstdError leaves the function.
\* `size` is the length of the returned bytes (an output above the cap of
\* the framer is not written out as `data`).
maybe_decompress(bytes, is_zstd) ==
    IF ~is_zstd \/ bytes = <<>>
    THEN [raised |-> FALSE, data |-> bytes, size |-> Len(bytes)]
    ELSE IF ~StartsWith(bytes, ZSTD_MAGIC)
    THEN [raised |-> FALSE, data |-> bytes, size |-> Len(bytes)]
    ELSE IF ZstdStream(bytes).error
    THEN [raised |-> TRUE, data |-> <<>>, size |-> 0]
    ELSE [raised |-> FALSE, data |-> ZstdStream(bytes).out, size |-> ZstdStream(bytes).size]

(***************************************************************************)
(* blackboxprotobuf.decode_message, as the extractor uses it: a schemaless *)
(* decode into a dict keyed by field number.  A Python value is kept with  *)
(* its type: an int (varint and fixed fields), bytes, a dict (a            *)
(* length-delimited field that itself decodes as a message), or a list (a  *)
(* field number that occurs more than once).  A dict is the sequence of    *)
(* its items in insertion order.                                           *)
(***************************************************************************)
IntV(n) == [t |-> "int", v |-> n]
BytesV(b) == [t |-> "bytes", v |-> b]
DictV(d) == [t |-> "dict", v |-> d]
ListV(l) == [t |-> "list", v |-> l]
NoneV == [t |-> "none", v |-> 0]

\* key in dict
Has(d, key) == \E i \in 1..Len(d) : d[i].k = key

\* dict.get(key)
Get(d, key) ==
    IF Has(d, key)
    THEN d[CHOOSE i \in 1..Len(d) : d[i].k = key].v
    ELSE NoneV

\* a decoded field added to the dict: a repeated field number becomes a list
Put(d, key, value) ==
    IF Has(d, key)
    THEN LET i == CHOOSE j \in 1..Len(d) : d[j].k = key IN
         [d EXCEPT ![i].v = IF @.t = "list" THEN ListV(Append(@.v, value))
                            ELSE ListV(<<@, value>>)]
    ELSE Append(d, [k |-> key, v |-> value])

\* little-endian fixed32 / fixed64
RECURSIVE LittleEndian(_)
LittleEndian(bytes) ==
    IF bytes = <<>> THEN 0 ELSE Head(bytes) + 256 * LittleEndian(Tail(bytes))

RECURSIVE BbpbFields(_, _, _)
BbpbFields(bytes, pos, d) ==
    IF pos >= Len(bytes) THEN [ok |-> TRUE, dict |-> d]
    ELSE
    LET tag == read_varint(bytes, pos)
        wire == tag.value % 8
        key == tag.value \div 8
        Failed == [ok |-> FALSE, dict |-> <<>>]
        Fixed(width) ==
            IF tag.pos + width > Len(bytes) THEN Failed
            ELSE BbpbFields(bytes, tag.pos + width,
                     Put(d, key, IntV(LittleEndian(Slice(bytes, tag.pos, tag.pos + width)))))
    IN  IF tag.raised \/ key = 0 THEN Failed
        ELSE IF wire = 0
        THEN LET n == read_varint(bytes, tag.pos) IN
             IF n.raised THEN Failed
             ELSE BbpbFields(bytes, n.pos, Put(d, key, IntV(n.value)))
        ELSE IF wire = 2
        THEN LET n == read_varint(bytes, tag.pos) IN
             IF n.raised \/ n.pos + n.value > Len(bytes) THEN Failed
             ELSE LET content == Slice(bytes, n.pos, n.pos + n.value)
                      sub == BbpbFields(content, 0, <<>>)
                  IN  BbpbFields(bytes, n.pos + n.value,
                          Put(d, key, IF content # <<>> /\ sub.ok
                                      THEN DictV(sub.dict) ELSE BytesV(content)))
        ELSE IF wire = 1 THEN Fixed(8)
        ELSE IF wire = 5 THEN Fixed(4)
        ELSE Failed

decode_message(segment) == BbpbFields(segment, 0, <<>>)

(***************************************************************************)
(* Listing, Listing.to_dict and consolidate.                               *)
(***************************************************************************)
Listing(frame_offset, server_sequence, price_luno, quantity, item_config_id, raw_entry) ==
    [frame_offset |-> frame_offset, server_sequence |-> server_sequence,
     price_luno |-> price_luno, quantity |-> quantity,
     item_config_id |-> item_config_id, raw_entry |-> raw_entry]

\* mutant: the quantity is not looked at
EntryRejected_QuantityUnchecked(price, quantity, details) ==
    \/ price.t # "int"
    \/ details.t # "dict"
    \/ ~Has(details.v, 2)

\* the test that skips an entry: not isinstance(price, int) or ...
EntryRejected(price, quantity, details) ==
    \/ price.t # "int"
    \/ quantity.t # "int"
    \/ details.t # "dict"
    \/ ~Has(details.v, 2)

\* the loop over the entries of one decoded block (extract_listing_blocks,
\* "for entry in entries")
RECURSIVE ListingsOf(_, _, _)
ListingsOf(entries, frame_offset, server_seq) ==
    IF entries = <<>> THEN <<>>
    ELSE
    LET entry == Head(entries)
        rest == ListingsOf(Tail(entries), frame_offset, server_seq)
    IN  IF entry.t # "dict" THEN rest
        ELSE
        LET price == Get(entry.v, 1)
            quantity == Get(entry.v, 2)
            details == IF Get(entry.v, 3).t = "dict" THEN Get(entry.v, 3) ELSE NoneV
        IN  IF EntryRejected(price, quantity, details)
            THEN rest
            ELSE LET item_id == Get(details.v, 2) IN
                 <<Listing(frame_offset, server_seq, price.v, quantity.v,
                           IF item_id.t = "int" THEN item_id ELSE NoneV,
                           entry.v)>> \o rest

\* the listings of one segment: decode_message, decoded["1"]["2"], the entries
SegmentListings(segment, frame_offset, server_seq) ==
    LET decoded == decode_message(segment) IN
    IF ~decoded.ok THEN <<>>
    ELSE LET inner == Get(decoded.dict, 1) IN
         IF inner.t # "dict" THEN <<>>
         ELSE LET entries == Get(inner.v, 2) IN
              IF entries.t # "list" \/ entries.v = <<>> THEN <<>>
              ELSE ListingsOf(entries.v, frame_offset, server_seq)

\* a resolver argument: absent (None), or a lookup in an item mapping whose
\* records carry a name and an icon ("" when the record has none)
NoResolver == [given |-> FALSE, mapping |-> <<>>]
Resolver(mapping) == [given |-> TRUE, mapping |-> mapping]

Resolve(resolver, item_id) ==
    IF item_id \in DOMAIN resolver.mapping
    THEN [found |-> TRUE, record |-> resolver.mapping[item_id]]
    ELSE [found |-> FALSE, record |-> [name |-> "", icon |-> ""]]

\* mutant: the icon goes under metadata whether the record has one or not
to_dict_IconAlways(listing, resolver) ==
    LET payload ==
            [price_luno |-> listing.price_luno,
             quantity |-> listing.quantity,
             item_id |-> listing.item_config_id]
        metadata ==
            [frame_offset |-> listing.frame_offset,
             server_sequence |-> listing.server_sequence,
             raw_entry |-> listing.raw_entry]
        resolved ==
            IF resolver.given /\ listing.item_config_id # NoneV
            THEN Resolve(resolver, listing.item_config_id.v)
            ELSE [found |-> FALSE, record |-> [name |-> "", icon |-> ""]]
    IN  IF resolved.found
        THEN payload @@ [item_name |-> resolved.record.name]
                     @@ [metadata |-> metadata @@ [item_icon |-> resolved.record.icon]]
        ELSE payload @@ [metadata |-> metadata]

\* Listing.to_dict(resolver)
to_dict(listing, resolver) ==
    LET payload ==
            [price_luno |-> listing.price_luno,
             quantity |-> listing.quantity,
             item_id |-> listing.item_config_id]
        metadata ==
            [frame_offset |-> listing.frame_offset,
             server_sequence |-> listing.server_sequence,
             raw_entry |-> listing.raw_entry]
        resolved ==
            IF resolver.given /\ listing.item_config_id # NoneV
            THEN Resolve(resolver, listing.item_config_id.v)
            ELSE [found |-> FALSE, record |-> [name |-> "", icon |-> ""]]
        named == IF resolved.found
                 THEN payload @@ [item_name |-> resolved.record.name]
                 ELSE payload
        meta == IF resolved.found /\ resolved.record.icon # ""
                THEN metadata @@ [item_icon |-> resolved.record.icon]
                ELSE metadata
    IN  named @@ [metadata |-> meta]

\* mutant: the quantity is left out of the key
ListingKey_NoQuantity(entry) == <<entry.item_config_id, entry.price_luno>>

\* the key consolidate deduplicates on
ListingKey(entry) == <<entry.item_config_id, entry.price_luno, entry.quantity>>

\* dedup.setdefault(key, entry) over the listings, in order
RECURSIVE Dedup(_, _)
Dedup(listings, dedup) ==
    IF listings = <<>> THEN dedup
    ELSE LET entry == Head(listings) IN
         Dedup(Tail(listings),
               IF \E i \in 1..Len(dedup) : dedup[i].key = ListingKey(entry)
               THEN dedup
               ELSE Append(dedup, [key |-> ListingKey(entry), entry |-> entry]))

consolidate(listings, resolver) ==
    LET dedup == Dedup(listings, <<>>) IN
    [i \in 1..Len(dedup) |-> to_dict(dedup[i].entry, resolver)]

(***************************************************************************)
(* Inputs of the extractor: FrameDown carriers of listing blocks.  A block *)
(* is field 1 (tag 0x0A) holding repeated field 2, one entry each; an      *)
(* entry is price (field 1), quantity (field 2) and details (field 3).     *)
(***************************************************************************)
LenDelim(tag, content) == <<tag, Len(content)>> \o content

\* a complete entry
EntryBytes(price, quantity, item) == <<8, price, 16, quantity>> \o LenDelim(26, <<16, item>>)

\* details whose field 2 is bytes, not a varint
EntryBytesItemId == <<8, 5, 16, 1>> \o LenDelim(26, LenDelim(18, <<120>>))

\* no quantity; details without field 2; field 3 a varint; price as bytes
EntryNoQuantity == <<8, 5>> \o LenDelim(26, <<16, 7>>)
EntryNoItemId == <<8, 5, 16, 1>> \o LenDelim(26, <<8, 7>>)
EntryScalarDetails == <<8, 5, 16, 1, 24, 7>>
EntryBytesPrice == LenDelim(10, <<120>>) \o <<16, 1>> \o LenDelim(26, <<16, 7>>)

RECURSIVE Repeated(_)
Repeated(entries) ==
    IF entries = <<>> THEN <<>>
    ELSE LenDelim(18, Head(entries)) \o Repeated(Tail(entries))

BlockBytes(entries) == LenDelim(10, Repeated(entries))

TradeFrames ==
    { FrameDownBytes(0, 1, BlockBytes(<<EntryBytes(5, 1, 7), EntryBytes(5, 1, 7), EntryBytes(6, 1, 8)>>)),
      FrameDownBytes(0, 2, BlockBytes(<<EntryBytes(5, 1, 7), EntryBytes(5, 2, 9)>>)),
      FrameDownBytes(0, 3, BlockBytes(<<EntryBytesItemId, EntryBytes(5, 1, 7), EntryBytesItemId>>)),
      FrameDownBytes(0, 4, BlockBytes(<<EntryNoQuantity, EntryNoItemId, EntryScalarDetails,
                                        EntryBytesPrice, EntryBytes(6, 1, 8)>>)),
      FrameDownBytes(0, 5, BlockBytes(<<EntryBytes(5, 1, 7)>>)),
      FrameDownBytes(0, 6, <<1, 10, 200>>),
      FrameDownBytes(0, 7, <<10, 40, 18, 1, 120>>),
      FrameDownBytes(0, 8, <<10, 2, 255, 255>> \o BlockBytes(<<EntryBytes(6, 1, 8), EntryBytes(5, 2, 9)>>)),
      FrameDownBytes(ZSTD_FLAG, 9, Stored(BlockBytes(<<EntryBytes(5, 1, 7), EntryBytes(6, 1, 8)>>))),
      FrameDownBytes(ZSTD_FLAG, 10, ZSTD_MAGIC \o <<9, 0, 0>>),
      FrameDownBytes(0, 11, <<>>),
      FrameDownBytes(0, 12, <<10, 129, 0, 120>> \o BlockBytes(<<EntryBytes(5, 2, 9), EntryBytes(5, 2, 9)>>)
                            \o <<10, 255, 255>>),
      NB }

ItemMapping ==
    (7 :> [name |-> "Sword", icon |-> "sword.png"])
    @@ (8 :> [name |-> "Potion", icon |-> ""])

\* the captures given to the extractor: up to MaxTradeFrames frames behind
\* up to MaxTradeGarbage prepended bytes
TradeCaptures ==
    {Concat(g) \o Concat(fs) :
        g \in SeqsUpTo({<<0>>, <<7>>}, MaxTradeGarbage),
        fs \in SeqsUpTo(TradeFrames, MaxTradeFrames)}

(***************************************************************************)
(* The run: main() of trading_center_decode.py.  iter_frames is advanced   *)
(* one loop iteration at a time; the scan of a nested block, the body of   *)
(* the for loop of extract_listing_blocks, runs one iteration at a time    *)
(* before iter_frames is resumed.                                          *)
(***************************************************************************)
\* iter_frames: the header at the cursor
TradeLoopCond == trade.offset + 6 <= Len(trade.data)
TradeLength == U32BE(trade.data, trade.offset)
TradeMisses == TradeLength = 0 \/ trade.offset + TradeLength > Len(trade.data)
TradePktType == U16BE(trade.data, trade.offset + 4)
TradeBody == Slice(trade.data, trade.offset + 6, trade.offset + TradeLength)

AtTradeFrame == trade.pc = "frames" /\ TradeLoopCond /\ ~TradeMisses

\* the for body up to the scan: is this frame a carrier with content?
TradeCarrier ==
    /\ TradePktType % 32768 = FRAMEDOWN_FRAGMENT
    /\ Len(TradeBody) > 4

TradeNested == maybe_decompress(Slice(TradeBody, 4, Len(TradeBody)), TradePktType >= 32768)

TradeStart ==
    /\ trade.pc = "start"
    /\ trade' = [trade EXCEPT !.pc = "frames"]
    /\ UNCHANGED not_trade

\* iter_frames: length == 0 or offset + length > end
TradeMiss ==
    /\ trade.pc = "frames"
    /\ TradeLoopCond
    /\ TradeMisses
    /\ trade' = [trade EXCEPT !.offset = @ + 1]
    /\ UNCHANGED not_trade

\* the for body ends in one of its three "continue"s; iter_frames moves on
TradeSkipFrame ==
    /\ AtTradeFrame
    /\ \/ ~TradeCarrier
       \/ ~TradeNested.raised /\ TradeNested.size = 0
    /\ trade' = [trade EXCEPT !.offset = @ + TradeLength]
    /\ UNCHANGED not_trade

\* maybe_decompress raised: nothing in extract_listing_blocks, in
\* iter_exchange_replies or in main of the module catches it; main of the
\* trade-decode command does ("except Exception": return 1)
TradeDecompressRaise ==
    /\ AtTradeFrame
    /\ TradeCarrier
    /\ TradeNested.raised
    /\ trade' = IF trade.via = "cli"
                THEN [trade EXCEPT !.pc = "returned", !.returned = 1]
                ELSE [trade EXCEPT !.pc = "raised"]
    /\ UNCHANGED not_trade

\* the scan of a nested block starts
TradeEnterBlock ==
    /\ AtTradeFrame
    /\ TradeCarrier
    /\ ~TradeNested.raised
    /\ TradeNested.size # 0
    /\ trade' = [trade EXCEPT !.pc = "scan",
                              !.server_seq = Digits(TradeBody, 0, 4),
                              !.nested = TradeNested.data,
                              !.idx = 0]
    /\ UNCHANGED not_trade

Scanning == trade.pc = "scan" /\ trade.idx < Len(trade.nested)

\* the varint behind the tag at idx
ScanVarint == read_varint(trade.nested, trade.idx + 1)

\* the while loop of the scan ends, by its condition or by "break"
LeaveBlock == [trade EXCEPT !.pc = "frames", !.offset = @ + TradeLength]

\* field != 0x0A
ScanSkipByte ==
    /\ Scanning
    /\ trade.nested[trade.idx + 1] # 10
    /\ trade' = [trade EXCEPT !.idx = @ + 1]
    /\ UNCHANGED not_trade

\* read_varint raised ValueError
ScanBadVarint ==
    /\ Scanning
    /\ trade.nested[trade.idx + 1] = 10
    /\ ScanVarint.raised
    /\ trade' = [trade EXCEPT !.idx = @ + 1]
    /\ UNCHANGED not_trade

\* end > len(nested): break
ScanBreak ==
    /\ Scanning
    /\ trade.nested[trade.idx + 1] = 10
    /\ ~ScanVarint.raised
    /\ ScanVarint.pos + ScanVarint.value > Len(trade.nested)
    /\ trade' = LeaveBlock
    /\ UNCHANGED not_trade

\* a segment is cut out, the cursor moves behind it, and the segment's
\* listings, if it decodes to any, are appended
ScanSegment ==
    /\ Scanning
    /\ trade.decoder = "v1"
    /\ trade.nested[trade.idx + 1] = 10
    /\ ~ScanVarint.raised
    /\ ScanVarint.pos + ScanVarint.value <= Len(trade.nested)
    /\ LET end == ScanVarint.pos + ScanVarint.value
           segment == Slice(trade.nested, trade.idx, end)
       IN  trade' = [trade EXCEPT
                !.idx = end,
                !.listings = @ \o SegmentListings(segment, trade.offset, trade.server_seq)]
    /\ UNCHANGED not_trade

\* ParseFromString of the generated ExchangeNoticeDetail_Ret class on the
\* payload of a reply.  The generated modules are not in the source tree:
\* wire data the protobuf runtime cannot walk is a DecodeError under any
\* schema; a payload it can walk either shows no items, or the entries that
\* the field layout of extract_listing_blocks finds in it.
ReplyOutcomes(payload, frame_offset, server_seq) ==
    IF ~ProtoParse(payload).ok THEN {<<>>}
    ELSE {<<>>, SegmentListings(LenDelim(10, payload), frame_offset, server_seq)}

\* TradingDecoderV2: iter_exchange_replies yields the payload behind a tag
\* after moving idx to its end; decode_listings parses it and, on a
\* DecodeError, goes on to the next reply
ScanReply ==
    /\ Scanning
    /\ trade.decoder = "v2"
    /\ trade.nested[trade.idx + 1] = 10
    /\ ~ScanVarint.raised
    /\ ScanVarint.pos + ScanVarint.value <= Len(trade.nested)
    /\ LET payload_start == ScanVarint.pos
           payload_end == payload_start + ScanVarint.value
           payload == Slice(trade.nested, payload_start, payload_end)
       IN  \E found \in ReplyOutcomes(payload, trade.offset, trade.server_seq) :
             trade' = [trade EXCEPT !.idx = payload_end, !.listings = @ \o found]
    /\ UNCHANGED not_trade

\* idx reached len(nested)
ScanEnd ==
    /\ trade.pc = "scan"
    /\ trade.idx >= Len(trade.nested)
    /\ trade' = LeaveBlock
    /\ UNCHANGED not_trade

\* iter_frames is exhausted: main prints the consolidated listings, with
\* the resolver if an item mapping was found
TradeFinish ==
    /\ trade.pc = "frames"
    /\ trade.via = "module"
    /\ ~TradeLoopCond
    /\ trade' = [trade EXCEPT
            !.pc = "done",
            !.result = IF trade.listings = <<>> THEN <<>>
                       ELSE consolidate(trade.listings, trade.resolver)]
    /\ UNCHANGED not_trade

(***************************************************************************)
(* The trade-decode command (cli/bpsr_decode_trade.py): main() picks the   *)
(* decoder, falls back from V2 to V1, and writes the consolidated          *)
(* listings.  The two extractions run through the loops above.             *)
(***************************************************************************)
\* decoder_choice == 'v2': decode_listings returns [] at once when the
\* generated modules are missing, and main turns to extract_listing_blocks
CliStart ==
    /\ trade.pc = "cli"
    /\ trade' = [trade EXCEPT
            !.pc = "frames",
            !.decoder = IF trade.decoder_choice = "v2" /\ trade.available
                        THEN "v2" ELSE "v1"]
    /\ UNCHANGED not_trade

CliExtracted == trade.pc = "frames" /\ trade.via = "cli" /\ ~TradeLoopCond

\* "elif not listings": the heuristic decoder reads the capture again
CliFallback ==
    /\ CliExtracted
    /\ trade.decoder = "v2"
    /\ trade.listings = <<>>
    /\ trade' = [trade EXCEPT !.decoder = "v1", !.offset = 0]
    /\ UNCHANGED not_trade

\* "if not listings": the message, and return 1
CliNoListings ==
    /\ CliExtracted
    /\ trade.decoder = "v1"
    /\ trade.listings = <<>>
    /\ trade' = [trade EXCEPT !.pc = "returned", !.returned = 1]
    /\ UNCHANGED not_trade

\* consolidate, json.dump to the output path, return 0
CliWrite ==
    /\ CliExtracted
    /\ trade.listings # <<>>
    /\ trade' = [trade EXCEPT
            !.pc = "returned",
            !.result = consolidate(trade.listings, trade.resolver),
            !.written = TRUE,
            !.returned = 0]
    /\ UNCHANGED not_trade

\* main is a click command run in standalone mode ("main()" under
\* __main__, CliRunner.invoke in the tests): click invokes the callback,
\* drops what it returns and ends the process through ctx.exit(), status 0
ClickExit(returned) == 0

CliExit ==
    /\ trade.pc = "returned"
    /\ trade' = [trade EXCEPT !.pc = "exited", !.exit_status = ClickExit(trade.returned)]
    /\ UNCHANGED not_trade

\* the decode command does not run
DecodeIdle ==
    /\ data = <<>> /\ prefix = <<>>
    /\ decoder = [version |-> "v1", static |-> {}]
    /\ reader = NewReader
    /\ stack = <<>> /\ yielded = <<>> /\ visited = <<>>
    /\ output = <<>> /\ method_hist = <<>>
    /\ pc = "idle"

\* a direct call returns or raises
Called(fn) == call.fn = fn /\ call.state = "called"

Outcome(raised, result) ==
    [call EXCEPT !.state = IF raised THEN "raised" ELSE "returned", !.result = result]

\* read_varint(data, start), called directly
VarintBytes == {0, 1, 127, 128, 255}

VarintCalls ==
    {[fn |-> "read_varint", state |-> "called",
      args |-> [data |-> bytes, start |-> start], result |-> <<>>] :
        bytes \in SeqsUpTo(VarintBytes, MaxVarintLen), start \in 0..MaxVarintLen}

CallReadVarint ==
    /\ Called("read_varint")
    /\ LET r == read_varint(call.args.data, call.args.start) IN
       call' = Outcome(r.raised, [value |-> r.value, pos |-> r.pos])
    /\ UNCHANGED not_call

\* Listings to call to_dict and consolidate with: a few (item id, price,
\* quantity) triples, each found at two places of a capture
ListingPool ==
    {Listing(at.frame_offset, at.server_sequence, key[2], key[3], key[1],
             <<[k |-> 1, v |-> IntV(key[2])], [k |-> 2, v |-> IntV(key[3])]>>) :
        key \in {<<IntV(7), 5, 1>>, <<IntV(7), 6, 1>>, <<IntV(7), 5, 2>>,
                 <<NoneV, 5, 1>>, <<IntV(8), 5, 1>>, <<IntV(9), 5, 1>>},
        at \in {[frame_offset |-> 0, server_sequence |-> <<0, 0, 0, 1>>],
                [frame_offset |-> 32, server_sequence |-> <<0, 0, 0, 2>>]}}

Resolvers == {NoResolver, Resolver(ItemMapping)}

ToDictCalls ==
    {[fn |-> "to_dict", state |-> "called",
      args |-> [listing |-> l, resolver |-> r], result |-> <<>>] :
        l \in ListingPool, r \in Resolvers}

ConsolidateCalls ==
    {[fn |-> "consolidate", state |-> "called",
      args |-> [listings |-> ls, resolver |-> r], result |-> <<>>] :
        ls \in SeqsUpTo(ListingPool, MaxListings), r \in Resolvers}

\* maybe_decompress(data, is_zstd), called directly: nothing, plain bytes,
\* two good frames, two corrupt ones and one that expands beyond 10 MiB
DecompressPayloads ==
    {<<>>, <<10, 1, 120>>, Stored(<<10, 1, 120>>), Stored(<<>>),
     ZSTD_MAGIC, ZSTD_MAGIC \o <<9, 0, 0>>, ZSTD_MAGIC \o <<1, 65>>}

DecompressCalls ==
    {[fn |-> "maybe_decompress", state |-> "called",
      args |-> [data |-> bytes, is_zstd |-> flag], result |-> <<>>] :
        bytes \in DecompressPayloads, flag \in BOOLEAN}

CallMaybeDecompress ==
    /\ Called("maybe_decompress")
    /\ LET r == maybe_decompress(call.args.data, call.args.is_zstd) IN
       call' = Outcome(r.raised, [data |-> r.data, size |-> r.size])
    /\ UNCHANGED not_call

CallToDict ==
    /\ Called("to_dict")
    /\ call' = Outcome(FALSE, to_dict(call.args.listing, call.args.resolver))
    /\ UNCHANGED not_call

CallConsolidate ==
    /\ Called("consolidate")
    /\ call' = Outcome(FALSE, consolidate(call.args.listings, call.args.resolver))
    /\ UNCHANGED not_call

\* iter_frames(data), run to exhaustion: the tuples it yields, in order
RECURSIVE iter_frames_from(_, _)
iter_frames_from(bytes, offset) ==
    IF ~(offset + 6 <= Len(bytes))
    THEN <<>>
    ELSE LET length == U32BE(bytes, offset)
             pkt_type == U16BE(bytes, offset + 4) IN
         IF length = 0 \/ offset + length > Len(bytes)
         THEN iter_frames_from(bytes, offset + 1)
         ELSE <<[offset |-> offset,
                 length |-> length,
                 fragment_type |-> pkt_type % 32768,
                 is_zstd |-> pkt_type >= 32768,
                 body |-> Slice(bytes, offset + 6, offset + length)]>>
              \o iter_frames_from(bytes, offset + length)

iter_frames(bytes) == iter_frames_from(bytes, 0)

\* iter_frames called directly, as the unit tests call it: up to MaxGarbage
\* bytes of a length field's values in front of up to two frames
WalkFrames ==
    { FrameDownBytes(0, 1, <<10, 0>>),
      EncodeFrame(ZSTD_FLAG + FRAMEDOWN_FRAGMENT, <<0, 0, 0, 2, 97>>),
      EncodeFrame(5, <<>>) }

WalkBuffers ==
    {g \o Concat(fs) : g \in SeqsUpTo({0, 5, 7}, MaxGarbage), fs \in SeqsUpTo(WalkFrames, 2)}

IterFramesCalls ==
    {[fn |-> "iter_frames", state |-> "called",
      args |-> [data |-> bytes], result |-> <<>>] : bytes \in WalkBuffers}

CallIterFrames ==
    /\ Called("iter_frames")
    /\ call' = Outcome(FALSE, iter_frames(call.args.data))
    /\ UNCHANGED not_call

\* the frames given to the command
CliFrames ==
    { FrameDownBytes(0, 5, BlockBytes(<<EntryBytes(5, 1, 7)>>)),
      FrameDownBytes(0, 6, <<1, 10, 200>>),
      FrameDownBytes(0, 8, <<10, 2, 255, 255>> \o BlockBytes(<<EntryBytes(6, 1, 8), EntryBytes(5, 2, 9)>>)),
      FrameDownBytes(ZSTD_FLAG, 9, Stored(BlockBytes(<<EntryBytes(5, 1, 7), EntryBytes(6, 1, 8)>>))),
      FrameDownBytes(ZSTD_FLAG, 10, ZSTD_MAGIC \o <<9, 0, 0>>),
      FrameDownBytes(0, 13, <<10, 2, 255, 255>>) }

CliCaptures == {Concat(fs) : fs \in SeqsUpTo(CliFrames, MaxCliFrames)}

CliRuns ==
    {[TradeIdle EXCEPT !.pc = "cli", !.via = "cli", !.data = capture,
                       !.resolver = resolver, !.decoder_choice = choice,
                       !.available = available] :
        capture \in CliCaptures, resolver \in Resolvers,
        choice \in {"v1", "v2"}, available \in BOOLEAN}

\* main() on a capture, the command on a capture, or one direct call
TradeInit ==
    /\ DecodeIdle
    /\ reducer = ReducerIdle
    /\ catalog = CatalogIdle
    /\ \/ /\ \E capture \in TradeCaptures, resolver \in Resolvers :
                trade = [TradeIdle EXCEPT !.pc = "start", !.data = capture,
                                          !.resolver = resolver]
          /\ call = NoCall
       \/ /\ trade \in CliRuns
          /\ call = NoCall
       \/ /\ trade = TradeIdle
          /\ call \in VarintCalls \cup ToDictCalls \cup ConsolidateCalls
                        \cup DecompressCalls \cup IterFramesCalls

TradeNext ==
    \/ TradeStart \/ TradeMiss \/ TradeSkipFrame \/ TradeDecompressRaise
    \/ TradeEnterBlock \/ ScanSkipByte \/ ScanBadVarint \/ ScanBreak
    \/ ScanSegment \/ ScanReply \/ ScanEnd \/ TradeFinish
    \/ CliStart \/ CliFallback \/ CliNoListings \/ CliWrite \/ CliExit
    \/ CallReadVarint \/ CallToDict \/ CallConsolidate \/ CallMaybeDecompress
    \/ CallIterFrames

TradeSpec == TradeInit /\ [][TradeNext]_vars

(***************************************************************************)
(* The combat reducer (combat_reduce.py).  A JSON value is kept with its   *)
(* Python type, as the values decode_message returns are; a str and a bool *)
(* are added here.  A dict is the sequence of its items.                   *)
(***************************************************************************)
StrV(s) == [t |-> "str", v |-> s]
BoolV(b) == [t |-> "bool", v |-> b]

\* x == s for a str s
IsStr(x, s) == x.t = "str" /\ x.v = s

\* the truth value Python gives a value in "if x" and "x or y"
Truthy(x) ==
    CASE x.t = "none" -> FALSE
      [] x.t = "bool" -> x.v
      [] x.t = "int" -> x.v # 0
      [] x.t = "str" -> x.v # ""
      [] OTHER -> x.v # <<>>

\* x or y
Or(x, y) == IF Truthy(x) THEN x ELSE y

\* int(s) on the strings of the model; on any other string it raises ValueError
IntOfStr ==
    ("12" :> 12) @@ ("7" :> 7) @@ ("0" :> 0) @@ ("-5" :> 0 - 5)
    @@ ("8" :> 8) @@ ("9" :> 9) @@ ("07" :> 7) @@ ("123" :> 123)

\* _parse_int(value): an int, or None
parse_int(value) ==
    CASE value.t = "none" -> NoneV
      [] value.t = "bool" -> IntV(IF value.v THEN 1 ELSE 0)
      [] value.t = "int" -> value
      [] value.t = "str" /\ value.v # "" ->
            IF value.v \in DOMAIN IntOfStr THEN IntV(IntOfStr[value.v]) ELSE NoneV
      [] OTHER -> NoneV

\* str(n) of an int
Digit == <<"0", "1", "2", "3", "4", "5", "6", "7", "8", "9">>

RECURSIVE DecimalStr(_)
DecimalStr(n) ==
    IF n < 0 THEN "-" \o DecimalStr(0 - n)
    ELSE IF n < 10 THEN Digit[n + 1]
    ELSE DecimalStr(n \div 10) \o Digit[(n % 10) + 1]

\* Bucket and CombatReducer, as constructed
Bucket == [damage |-> 0, hits |-> 0, crits |-> 0]

CombatReducer ==
    [total_damage |-> 0, hits |-> 0, crits |-> 0,
     player_uuid |-> NoneV, current_server_time_ms |-> NoneV,
     start_time_ms |-> NoneV, end_time_ms |-> NoneV,
     skill_buckets |-> <<>>, target_buckets |-> <<>>]

\* buckets[key] of a defaultdict(Bucket), then the three additions
Credit(buckets, key, raw_value, is_crit) ==
    LET bucket == IF key \in DOMAIN buckets THEN buckets[key] ELSE Bucket
        credited == [damage |-> bucket.damage + raw_value,
                     hits |-> bucket.hits + 1,
                     crits |-> bucket.crits + (IF is_crit THEN 1 ELSE 0)]
    IN  (key :> credited) @@ buckets

\* mutant: a server time of 0 counts as missing
update_server_time_Falsy(self, record_data) ==
    LET server_ms == Or(parse_int(Get(record_data, "server_milliseconds")),
                        parse_int(Get(record_data, "client_milliseconds")))
    IN  IF server_ms # NoneV
        THEN [self EXCEPT !.current_server_time_ms = server_ms]
        ELSE self

\* _update_server_time(data)
update_server_time(self, record_data) ==
    LET first == parse_int(Get(record_data, "server_milliseconds"))
        server_ms == IF first = NoneV
                     THEN parse_int(Get(record_data, "client_milliseconds"))
                     ELSE first
    IN  IF server_ms # NoneV
        THEN [self EXCEPT !.current_server_time_ms = server_ms]
        ELSE self

\* mutant: the uuid nested in base_delta is tried first
update_player_uuid_BaseFirst(self, record_data) ==
    LET delta == Get(record_data, "delta_info") IN
    IF delta.t # "dict" THEN self
    ELSE
    LET base_delta == Get(delta.v, "base_delta") IN
    IF base_delta.t = "dict" /\ parse_int(Get(base_delta.v, "uuid")) # NoneV
    THEN [self EXCEPT !.player_uuid = parse_int(Get(base_delta.v, "uuid"))]
    ELSE IF parse_int(Get(delta.v, "uuid")) # NoneV
    THEN [self EXCEPT !.player_uuid = parse_int(Get(delta.v, "uuid"))]
    ELSE self

\* _update_player_uuid(data)
update_player_uuid(self, record_data) ==
    LET delta == Get(record_data, "delta_info") IN
    IF delta.t # "dict" THEN self
    ELSE
    LET direct_uuid == parse_int(Get(delta.v, "uuid")) IN
    IF direct_uuid # NoneV THEN [self EXCEPT !.player_uuid = direct_uuid]
    ELSE
    LET base_delta == Get(delta.v, "base_delta") IN
    IF base_delta.t = "dict" /\ parse_int(Get(base_delta.v, "uuid")) # NoneV
    THEN [self EXCEPT !.player_uuid = parse_int(Get(base_delta.v, "uuid"))]
    ELSE self

\* the value _process_damage reads off the four fields
raw_value_of(damage) ==
    Or(Or(Or(parse_int(Get(damage, "actual_value")),
             parse_int(Get(damage, "value"))),
          parse_int(Get(damage, "hp_lessen_value"))),
       parse_int(Get(damage, "lucky_value")))

\* the skill id _process_damage reads off owner_id and hit_event_id
skill_id_of(damage) ==
    Or(parse_int(Get(damage, "owner_id")), parse_int(Get(damage, "hit_event_id")))

\* mutant: the attacker is not compared with the player
process_damage_Unattributed(self, damage, target_uuid) ==
    LET raw_value == raw_value_of(damage)
        is_crit == Truthy(Get(damage, "is_crit"))
    IN
    IF IsStr(Get(damage, "type"), "E_DAMAGE_TYPE_HEAL") THEN self
    ELSE IF Truthy(Get(damage, "is_miss")) THEN self
    ELSE IF raw_value = NoneV \/ raw_value.v <= 0 THEN self
    ELSE [self EXCEPT !.total_damage = @ + raw_value.v, !.hits = @ + 1,
                      !.crits = @ + (IF is_crit THEN 1 ELSE 0)]

\* mutant: an entry without an attacker is rejected once the player is known
process_damage_AttackerRequired(self, damage, target_uuid) ==
    LET raw_value == raw_value_of(damage)
        attacker_uuid == parse_int(Get(damage, "attacker_uuid"))
    IN
    IF IsStr(Get(damage, "type"), "E_DAMAGE_TYPE_HEAL") THEN self
    ELSE IF Truthy(Get(damage, "is_miss")) THEN self
    ELSE IF self.player_uuid # NoneV /\ attacker_uuid # self.player_uuid THEN self
    ELSE IF raw_value = NoneV \/ raw_value.v <= 0 THEN self
    ELSE [self EXCEPT !.total_damage = @ + raw_value.v, !.hits = @ + 1]

\* mutant: a miss is credited like a hit
process_damage_MissCredited(self, damage, target_uuid) ==
    LET raw_value == raw_value_of(damage)
        attacker_uuid == parse_int(Get(damage, "attacker_uuid"))
    IN
    IF IsStr(Get(damage, "type"), "E_DAMAGE_TYPE_HEAL") THEN self
    ELSE IF self.player_uuid # NoneV /\ attacker_uuid # NoneV
            /\ attacker_uuid # self.player_uuid THEN self
    ELSE IF raw_value = NoneV \/ raw_value.v <= 0 THEN self
    ELSE [self EXCEPT !.total_damage = @ + raw_value.v, !.hits = @ + 1]

\* mutant: the skill bucket is credited one hit's worth less
process_damage_BucketShort(self, damage, target_uuid) ==
    LET raw_value == raw_value_of(damage)
        attacker_uuid == parse_int(Get(damage, "attacker_uuid"))
        skill_id == skill_id_of(damage)
    IN
    IF IsStr(Get(damage, "type"), "E_DAMAGE_TYPE_HEAL") THEN self
    ELSE IF Truthy(Get(damage, "is_miss")) THEN self
    ELSE IF self.player_uuid # NoneV /\ attacker_uuid # NoneV
            /\ attacker_uuid # self.player_uuid THEN self
    ELSE IF raw_value = NoneV \/ raw_value.v <= 0 THEN self
    ELSE [self EXCEPT
            !.total_damage = @ + raw_value.v, !.hits = @ + 1,
            !.skill_buckets =
                IF skill_id # NoneV
                THEN Credit(@, DecimalStr(skill_id.v), raw_value.v - 1, FALSE)
                ELSE @,
            !.target_buckets =
                IF target_uuid # NoneV
                THEN Credit(@, DecimalStr(target_uuid.v), raw_value.v, FALSE)
                ELSE @]

\* mutant: a value that is not positive is credited too
process_damage_NonPositiveCredited(self, damage, target_uuid) ==
    LET raw_value == raw_value_of(damage)
        attacker_uuid == parse_int(Get(damage, "attacker_uuid"))
    IN
    IF IsStr(Get(damage, "type"), "E_DAMAGE_TYPE_HEAL") THEN self
    ELSE IF Truthy(Get(damage, "is_miss")) THEN self
    ELSE IF self.player_uuid # NoneV /\ attacker_uuid # NoneV
            /\ attacker_uuid # self.player_uuid THEN self
    ELSE IF raw_value = NoneV THEN self
    ELSE [self EXCEPT !.total_damage = @ + raw_value.v, !.hits = @ + 1]

\* mutant: start_time_ms follows every timed credit
process_damage_StartOverwritten(self, damage, target_uuid) ==
    LET raw_value == raw_value_of(damage)
        attacker_uuid == parse_int(Get(damage, "attacker_uuid"))
        timed == self.current_server_time_ms # NoneV
    IN
    IF IsStr(Get(damage, "type"), "E_DAMAGE_TYPE_HEAL") THEN self
    ELSE IF Truthy(Get(damage, "is_miss")) THEN self
    ELSE IF self.player_uuid # NoneV /\ attacker_uuid # NoneV
            /\ attacker_uuid # self.player_uuid THEN self
    ELSE IF raw_value = NoneV \/ raw_value.v <= 0 THEN self
    ELSE [self EXCEPT
            !.total_damage = @ + raw_value.v, !.hits = @ + 1,
            !.start_time_ms = IF timed THEN self.current_server_time_ms ELSE @,
            !.end_time_ms = IF timed THEN self.current_server_time_ms ELSE @]

\* _process_damage(damage, target_uuid)
process_damage(self, damage, target_uuid) ==
    LET damage_type == Get(damage, "type")
        attacker_uuid == parse_int(Get(damage, "attacker_uuid"))
        raw_value == raw_value_of(damage)
        is_crit == Truthy(Get(damage, "is_crit"))
        skill_id == skill_id_of(damage)
        timed == self.current_server_time_ms # NoneV
    IN
    IF IsStr(damage_type, "E_DAMAGE_TYPE_HEAL") THEN self
    ELSE IF Truthy(Get(damage, "is_miss")) THEN self
    ELSE IF self.player_uuid # NoneV /\ attacker_uuid # NoneV
            /\ attacker_uuid # self.player_uuid THEN self
    ELSE IF raw_value = NoneV \/ raw_value.v <= 0 THEN self
    ELSE [self EXCEPT
            !.total_damage = @ + raw_value.v,
            !.hits = @ + 1,
            !.crits = @ + (IF is_crit THEN 1 ELSE 0),
            !.start_time_ms =
                IF timed /\ @ = NoneV THEN self.current_server_time_ms ELSE @,
            !.end_time_ms = IF timed THEN self.current_server_time_ms ELSE @,
            !.skill_buckets =
                IF skill_id # NoneV
                THEN Credit(@, DecimalStr(skill_id.v), raw_value.v, is_crit)
                ELSE @,
            !.target_buckets =
                IF target_uuid # NoneV
                THEN Credit(@, DecimalStr(target_uuid.v), raw_value.v, is_crit)
                ELSE @]

\* _process_delta(delta): the damage entries it hands to _process_damage,
\* each with the delta's target uuid
DamagesOf(delta) ==
    LET skill_effects == Get(delta, "skill_effects") IN
    IF skill_effects.t # "dict" THEN <<>>
    ELSE
    LET damages == Or(Get(skill_effects.v, "damages"), ListV(<<>>))
        target_uuid == parse_int(Get(delta, "uuid"))
        dicts == IF damages.t = "list"
                 THEN SelectSeq(damages.v, LAMBDA d : d.t = "dict")
                 ELSE <<>>
    IN  [i \in 1..Len(dicts) |-> [damage |-> dicts[i].v, target_uuid |-> target_uuid]]

RECURSIVE DamagesOfAll(_)
DamagesOfAll(deltas) ==
    IF deltas = <<>> THEN <<>>
    ELSE (IF Head(deltas).t = "dict" THEN DamagesOf(Head(deltas).v) ELSE <<>>)
         \o DamagesOfAll(Tail(deltas))

(***************************************************************************)
(* Inputs of the reducer: JSONL lines, each blank or one decoded record.   *)
(***************************************************************************)
Item(key, value) == [k |-> key, v |-> value]

DamageEntries ==
    [own |-> DictV(<<Item("attacker_uuid", IntV(7)), Item("actual_value", IntV(100)),
                     Item("is_crit", BoolV(TRUE)), Item("owner_id", IntV(42))>>),
     other |-> DictV(<<Item("attacker_uuid", IntV(9)), Item("value", IntV(10)),
                       Item("owner_id", IntV(42))>>),
     heal |-> DictV(<<Item("type", StrV("E_DAMAGE_TYPE_HEAL")), Item("attacker_uuid", IntV(7)),
                      Item("actual_value", IntV(50)), Item("owner_id", IntV(42))>>),
     miss |-> DictV(<<Item("type", StrV("E_DAMAGE_TYPE_NORMAL")), Item("is_miss", BoolV(TRUE)),
                      Item("value", IntV(30))>>),
     second |-> DictV(<<Item("actual_value", IntV(0)), Item("value", StrV("12")),
                        Item("hit_event_id", IntV(5)), Item("is_miss", BoolV(FALSE))>>),
     negative |-> DictV(<<Item("actual_value", IntV(0 - 5)), Item("value", IntV(10)),
                          Item("owner_id", StrV("7"))>>),
     lucky |-> DictV(<<Item("value", StrV("x")), Item("lucky_value", IntV(8)),
                       Item("owner_id", IntV(0))>>),
     anonymous |-> DictV(<<Item("attacker_uuid", StrV("abc")), Item("hp_lessen_value", IntV(4))>>),
     empty |-> DictV(<<Item("value", StrV("0")), Item("lucky_value", StrV("-5"))>>)]

Damages(names) == ListV([i \in 1..Len(names) |-> DamageEntries[names[i]]])

\* a delta: its uuid (absent when None) and its damage entries
Delta(uuid, names) ==
    DictV((IF uuid = NoneV THEN <<>> ELSE <<Item("uuid", uuid)>>)
          \o <<Item("skill_effects", DictV(<<Item("damages", Damages(names))>>))>>)

Record(message_type, record_data) ==
    [kind |-> "json",
     record |-> <<Item("message_type", StrV(message_type)), Item("data", DictV(record_data))>>]

SyncServerTime(items) == Record("blueprotobuf_package.SyncServerTime", items)

SyncToMeDeltaInfo(delta_info) ==
    Record("blueprotobuf_package.SyncToMeDeltaInfo", <<Item("delta_info", DictV(delta_info))>>)

SyncNearDeltaInfo(deltas) ==
    Record("blueprotobuf_package.SyncNearDeltaInfo", <<Item("delta_infos", ListV(deltas))>>)

BlankLine == [kind |-> "blank", record |-> <<>>]

\* a non-blank line that is no JSON document
MalformedLine == [kind |-> "malformed", record |-> <<>>]

ReducerLines ==
    { SyncServerTime(<<Item("server_milliseconds", IntV(1000))>>),
      SyncServerTime(<<Item("server_milliseconds", StrV("x")),
                       Item("client_milliseconds", IntV(3000))>>),
      SyncToMeDeltaInfo(<<Item("uuid", IntV(7)),
                          Item("base_delta", Delta(IntV(3), <<"own">>))>>),
      SyncToMeDeltaInfo(<<Item("base_delta", Delta(StrV("7"), <<"other", "own", "heal">>))>>),
      SyncToMeDeltaInfo(<<Item("uuid", IntV(9))>>),
      SyncNearDeltaInfo(<<Delta(IntV(3), <<"other", "second">>)>>),
      SyncNearDeltaInfo(<<Delta(NoneV, <<"negative", "lucky", "second">>),
                          IntV(1),
                          Delta(IntV(4), <<"miss", "anonymous", "empty">>)>>),
      Record("blueprotobuf_package.SyncNearEntities", <<>>),
      BlankLine,
      MalformedLine }

\* SyncServerTime records: an int, a fallback to client_milliseconds, two
\* fields that do not parse, a server time of 0, a decimal string, a bool
TimeLines ==
    { SyncServerTime(<<Item("server_milliseconds", IntV(1000))>>),
      SyncServerTime(<<Item("server_milliseconds", StrV("x")),
                       Item("client_milliseconds", IntV(3000))>>),
      SyncServerTime(<<Item("server_milliseconds", StrV("")),
                       Item("client_milliseconds", NoneV)>>),
      SyncServerTime(<<Item("server_milliseconds", IntV(0)),
                       Item("client_milliseconds", IntV(3000))>>),
      SyncServerTime(<<Item("server_milliseconds", StrV("12"))>>),
      SyncServerTime(<<Item("client_milliseconds", BoolV(TRUE))>>) }

DamageLines ==
    { SyncToMeDeltaInfo(<<Item("uuid", IntV(7)),
                          Item("base_delta", Delta(IntV(3), <<"own">>))>>),
      SyncNearDeltaInfo(<<Delta(IntV(3), <<"other", "second">>)>>) }

\* captures in wire order: damage, a time sync, damage, a time sync, damage
TimedRuns ==
    { <<d1, t1, d2, t2, d3>> :
        d1 \in DamageLines, t1 \in TimeLines, d2 \in DamageLines,
        t2 \in TimeLines, d3 \in DamageLines }

(***************************************************************************)
(* CombatReducer.summary.  The two floats are kept as the fractions they   *)
(* round: a / b of two numbers is the fraction, never its float.           *)
(***************************************************************************)
Rat(n) == [num |-> n, den |-> 1]

\* a / b for b > 0
Quot(a, b) == [num |-> a.num * b.den, den |-> a.den * b.num]

SameNumber(a, b) == a.num * b.den = b.num * a.den

IsPositive(a) == a.num * a.den > 0

IsNegative(a) == a.num * a.den < 0

\* mutant: the difference of the two timestamps is taken as it is
summary_Unclamped(self) ==
    LET duration_s ==
            IF self.start_time_ms # NoneV /\ self.end_time_ms # NoneV
            THEN Quot(Rat(self.end_time_ms.v - self.start_time_ms.v), Rat(1000))
            ELSE Rat(0)
        dps == IF duration_s.num # 0
               THEN Quot(Rat(self.total_damage), duration_s) ELSE Rat(0)
    IN  [self |-> self,
         summary |-> [total_damage |-> self.total_damage, hits |-> self.hits,
                      crits |-> self.crits, active_duration_s |-> duration_s,
                      dps |-> dps, skills |-> self.skill_buckets,
                      targets |-> self.target_buckets]]

\* summary(): the reducer after the call, and the dict returned.  The two
\* bucket dicts are copied key by key (as_dict of every bucket).
summary(self) ==
    LET delta_ms == IF self.end_time_ms.v - self.start_time_ms.v > 0
                    THEN self.end_time_ms.v - self.start_time_ms.v ELSE 0
        duration_s ==
            IF self.start_time_ms # NoneV /\ self.end_time_ms # NoneV
            THEN Quot(Rat(delta_ms), Rat(1000))
            ELSE Rat(0)
        dps == IF IsPositive(duration_s)
               THEN Quot(Rat(self.total_damage), duration_s) ELSE Rat(0)
    IN  [self |-> self,
         summary |-> [total_damage |-> self.total_damage, hits |-> self.hits,
                      crits |-> self.crits, active_duration_s |-> duration_s,
                      dps |-> dps, skills |-> self.skill_buckets,
                      targets |-> self.target_buckets]]

(***************************************************************************)
(* The run: CombatReducer().process_records(lines), once as reduce_file    *)
(* does, or twice over the same lines.  A step reads one line and routes   *)
(* it, or hands one damage entry of that line to _process_damage.          *)
(***************************************************************************)
ReducerStart(lines, passes) ==
    [pc |-> "line", self |-> CombatReducer, lines |-> lines, line |-> 1,
     pending |-> <<>>, pass |-> 1, passes |-> passes,
     first_total |-> 0, handled |-> <<>>, summary |-> <<>>, written |-> FALSE]

CurrentLine == reducer.lines[reducer.line]

AtLine == reducer.pc = "line" /\ reducer.line <= Len(reducer.lines)

MessageType == Get(CurrentLine.record, "message_type")

\* record.get("data", {})
RecordData ==
    IF Has(CurrentLine.record, "data") THEN Get(CurrentLine.record, "data").v ELSE <<>>

\* "if not raw.strip(): continue", and a record of a message type that is
\* not routed
SkipLine ==
    /\ AtLine
    /\ \/ CurrentLine.kind = "blank"
       \/ /\ CurrentLine.kind = "json"
          /\ ~IsStr(MessageType, "blueprotobuf_package.SyncServerTime")
          /\ ~IsStr(MessageType, "blueprotobuf_package.SyncToMeDeltaInfo")
          /\ ~IsStr(MessageType, "blueprotobuf_package.SyncNearDeltaInfo")
    /\ reducer' = [reducer EXCEPT !.line = @ + 1]
    /\ UNCHANGED not_reducer

ServerTimeLine ==
    /\ AtLine
    /\ CurrentLine.kind = "json"
    /\ IsStr(MessageType, "blueprotobuf_package.SyncServerTime")
    /\ reducer' = [reducer EXCEPT !.self = update_server_time(@, RecordData),
                                  !.line = @ + 1]
    /\ UNCHANGED not_reducer

\* _update_player_uuid, then _process_delta(base_delta) up to its loop
ToMeLine ==
    /\ AtLine
    /\ CurrentLine.kind = "json"
    /\ IsStr(MessageType, "blueprotobuf_package.SyncToMeDeltaInfo")
    /\ LET delta == IF Has(RecordData, "delta_info")
                    THEN Get(RecordData, "delta_info") ELSE DictV(<<>>)
           base_delta == IF delta.t = "dict" /\ Has(delta.v, "base_delta")
                         THEN Get(delta.v, "base_delta") ELSE DictV(<<>>)
       IN  reducer' = [reducer EXCEPT
                !.self = update_player_uuid(@, RecordData),
                !.pending = DamagesOf(base_delta.v),
                !.pc = "damages"]
    /\ UNCHANGED not_reducer

\* mutant: the uuid of the first nearby delta is taken for the player's
NearLine_AdoptsUuid ==
    /\ AtLine
    /\ CurrentLine.kind = "json"
    /\ IsStr(MessageType, "blueprotobuf_package.SyncNearDeltaInfo")
    /\ LET deltas == Or(Get(RecordData, "delta_infos"), ListV(<<>>)) IN
       reducer' = [reducer EXCEPT
            !.self = IF deltas.v = <<>> THEN @
                     ELSE update_player_uuid(@, <<Item("delta_info", Head(deltas.v))>>),
            !.pending = DamagesOfAll(deltas.v),
            !.pc = "damages"]
    /\ UNCHANGED not_reducer

\* the loop over delta_infos, up to the first damage entry
NearLine ==
    /\ AtLine
    /\ CurrentLine.kind = "json"
    /\ IsStr(MessageType, "blueprotobuf_package.SyncNearDeltaInfo")
    /\ LET deltas == Or(Get(RecordData, "delta_infos"), ListV(<<>>)) IN
       reducer' = [reducer EXCEPT !.pending = DamagesOfAll(deltas.v),
                                  !.pc = "damages"]
    /\ UNCHANGED not_reducer

\* the damage entry _process_damage is about to be given
AtDamage == reducer.pc = "damages" /\ reducer.pending # <<>>

NextDamage == Head(reducer.pending)

\* self._process_damage(damage, target_uuid); the call is noted in the
\* history with the reducer before and after it
ProcessDamage ==
    /\ AtDamage
    /\ LET after == process_damage(reducer.self, NextDamage.damage, NextDamage.target_uuid) IN
       reducer' = [reducer EXCEPT
            !.self = after,
            !.pending = Tail(@),
            !.handled = Append(@, [damage |-> NextDamage.damage,
                                   target_uuid |-> NextDamage.target_uuid,
                                   pass |-> reducer.pass,
                                   before |-> reducer.self,
                                   after |-> after])]
    /\ UNCHANGED not_reducer

\* the line's damage entries are done
LineDone ==
    /\ reducer.pc = "damages"
    /\ reducer.pending = <<>>
    /\ reducer' = [reducer EXCEPT !.pc = "line", !.line = @ + 1]
    /\ UNCHANGED not_reducer

\* process_records returns; the same lines are given once more, or the run ends
PassDone ==
    /\ reducer.pc = "line"
    /\ reducer.line > Len(reducer.lines)
    /\ reducer' =
          IF reducer.pass < reducer.passes
          THEN [reducer EXCEPT !.pass = @ + 1, !.line = 1,
                               !.first_total = reducer.self.total_damage]
          ELSE [reducer EXCEPT !.pc = "done",
                               !.first_total = IF reducer.pass = 1
                                               THEN reducer.self.total_damage ELSE @]
    /\ UNCHANGED not_reducer

\* mutant: a line that is no JSON is passed over like a blank one
RaiseLine_Skipped ==
    /\ AtLine
    /\ CurrentLine.kind = "malformed"
    /\ reducer' = [reducer EXCEPT !.line = @ + 1]
    /\ UNCHANGED not_reducer

\* json.loads(raw) raises JSONDecodeError: process_records has no handler,
\* and in reduce_file the exception leaves the with block before summary()
\* and write_text are reached
RaiseLine ==
    /\ AtLine
    /\ CurrentLine.kind = "malformed"
    /\ reducer' = [reducer EXCEPT !.pc = "raised"]
    /\ UNCHANGED not_reducer

\* reducer.summary() after the last pass; reduce_file (one pass) writes it
\* to the output path
Summarize ==
    /\ reducer.pc = "done"
    /\ LET r == summary(reducer.self) IN
       reducer' = [reducer EXCEPT !.pc = "summarized",
                                  !.self = r.self,
                                  !.summary = r.summary,
                                  !.written = (reducer.passes = 1)]
    /\ UNCHANGED not_reducer

\* summary() called directly on a reducer whose fields were set by hand, as
\* test_combat_reducer_summary does
SummaryTimes == {NoneV, IntV(1000), IntV(2000), IntV(2500)}

SummaryCalls ==
    {[fn |-> "summary", state |-> "called",
      args |-> [self |-> [CombatReducer EXCEPT !.total_damage = total, !.hits = 10,
                                               !.crits = 3, !.start_time_ms = start,
                                               !.end_time_ms = end]],
      result |-> <<>>] :
        total \in {0, 7, 1000}, start \in SummaryTimes, end \in SummaryTimes}

CallSummary ==
    /\ Called("summary")
    /\ call' = Outcome(FALSE, summary(call.args.self))
    /\ UNCHANGED not_call

\* _parse_int(value) called directly, as test_parse_int does
ParseIntValues ==
    { IntV(42), IntV(0 - 5), StrV("123"), StrV("07"), StrV("-5"), BoolV(TRUE),
      BoolV(FALSE), NoneV, StrV(""), StrV("invalid"), ListV(<<IntV(1)>>),
      DictV(<<>>), BytesV(<<49>>) }

ParseIntCalls ==
    {[fn |-> "parse_int", state |-> "called", args |-> [value |-> value],
      result |-> <<>>] : value \in ParseIntValues}

CallParseInt ==
    /\ Called("parse_int")
    /\ call' = Outcome(FALSE, parse_int(call.args.value))
    /\ UNCHANGED not_call

ReducerInit ==
    /\ DecodeIdle
    /\ trade = TradeIdle
    /\ catalog = CatalogIdle
    /\ \/ /\ call = NoCall
          /\ \E lines \in SeqsUpTo(ReducerLines, MaxLines) \cup TimedRuns,
                passes \in 1..2 :
                reducer = ReducerStart(lines, passes)
       \/ /\ call \in SummaryCalls \cup ParseIntCalls
          /\ reducer = ReducerIdle

ReducerNext ==
    \/ SkipLine \/ ServerTimeLine \/ ToMeLine \/ NearLine \/ RaiseLine
    \/ ProcessDamage \/ LineDone \/ PassDone \/ Summarize \/ CallSummary
    \/ CallParseInt

ReducerSpec == ReducerInit /\ [][ReducerNext]_vars

(***************************************************************************)
(* The item catalog (item_catalog.py).  A file is what reading it gives:   *)
(* nothing there, an OSError, bytes that are no UTF-8, text that is no     *)
(* JSON, or a JSON document.                                               *)
(***************************************************************************)
ItemRecord(item_id, name, icon) == [item_id |-> item_id, name |-> name, icon |-> icon]

\* what a loader hands back: the exception that left it, or its mapping and
\* the number of paths it looked at
Loaded(mapping, probed) == [raised |-> "none", mapping |-> mapping, probed |-> probed]
Raises(error, probed) == [raised |-> error, mapping |-> <<>>, probed |-> probed]

\* str(value) of the values the files of the model hold
PyStr(value) ==
    CASE value.t = "str" -> value.v
      [] value.t = "int" -> DecimalStr(value.v)
      [] value.t = "none" -> "None"

\* path.read_text(encoding="utf-8") and json.loads(text)
ReadJson(file) ==
    CASE file.kind \in {"missing", "unreadable"} -> "OSError"
      [] file.kind = "not_utf8" -> "UnicodeDecodeError"
      [] file.kind = "invalid_json" -> "JSONDecodeError"
      [] file.kind = "json" -> "none"

\* the loop of _load_raw_mapping over payload.items()
RECURSIVE load_raw_items(_, _)
load_raw_items(items, mapping) ==
    IF items = <<>> THEN mapping
    ELSE
    LET raw_key == Head(items).k
        value == Head(items).v
        name == IF value.t = "dict"
                THEN Or(Get(value.v, "name"), Get(value.v, "Name"))
                ELSE StrV(PyStr(value))
        icon == IF value.t = "dict"
                THEN Or(Get(value.v, "icon"), Get(value.v, "Icon"))
                ELSE NoneV
    IN  IF raw_key \notin DOMAIN IntOfStr THEN load_raw_items(Tail(items), mapping)
        ELSE IF name.t # "str" \/ name.v = "" THEN load_raw_items(Tail(items), mapping)
        ELSE load_raw_items(Tail(items),
                (IntOfStr[raw_key] :> ItemRecord(IntOfStr[raw_key], name.v, icon)) @@ mapping)

load_raw_mapping(file) ==
    IF ReadJson(file) # "none" THEN Raises(ReadJson(file), 0)
    ELSE Loaded(IF file.payload.t = "dict" THEN load_raw_items(file.payload.v, <<>>) ELSE <<>>, 0)

\* the loop of _load_from_item_table over payload.items()
RECURSIVE load_table_items(_, _)
load_table_items(items, mapping) ==
    IF items = <<>> THEN mapping
    ELSE
    LET raw_key == Head(items).k
        value == Head(items).v
        rest == Tail(items)
    IN  IF value.t # "dict" THEN load_table_items(rest, mapping)
        ELSE
        LET id_field == Get(value.v, "Id")
            name == Get(value.v, "Name")
            icon == Get(value.v, "Icon")
            named == name.t = "str" /\ name.v # ""
            by_key == id_field.t # "int" \/ ~named
        IN  IF by_key /\ raw_key \notin DOMAIN IntOfStr THEN load_table_items(rest, mapping)
            ELSE IF ~named THEN load_table_items(rest, mapping)
            ELSE LET item_id == IF by_key THEN IntOfStr[raw_key] ELSE id_field.v IN
                 load_table_items(rest,
                    (item_id :> ItemRecord(item_id, name.v,
                                           IF icon.t = "str" THEN icon ELSE NoneV)) @@ mapping)

load_from_item_table(file) ==
    IF ReadJson(file) # "none" THEN Raises(ReadJson(file), 0)
    ELSE Loaded(IF file.payload.t = "dict" THEN load_table_items(file.payload.v, <<>>) ELSE <<>>, 0)

\* a path: its directory and its name; name.lower() for the names of the model
Path(dir, name) == [dir |-> dir, name |-> name]

Lower ==
    ("item_name_map.json" :> "item_name_map.json")
    @@ ("ItemTable.json" :> "itemtable.json")
    @@ ("items.json" :> "items.json")

DEFAULT_SEARCH_LOCATIONS ==
    <<Path("data/game-data", "item_name_map.json"),
      Path("ref/StarResonanceData", "item_name_map.json"),
      Path("ref/StarResonanceData/ztable", "item_name_map.json"),
      Path("ref/StarResonanceData/ztable", "ItemTable.json")>>

NoFile == [kind |-> "missing", payload |-> NoneV]

\* the file a path leads to
FileAt(fs, path) == IF path \in DOMAIN fs THEN fs[path] ELSE NoFile

\* the parser build_mapping_from_sources picks by the file's name
LoadCandidate(fs, candidate) ==
    IF Lower[candidate.name] = "itemtable.json"
    THEN load_from_item_table(FileAt(fs, candidate))
    ELSE load_raw_mapping(FileAt(fs, candidate))

\* build_mapping_from_sources(paths): the loop over the candidates
RECURSIVE build_mapping_loop(_, _, _, _)
build_mapping_loop(fs, paths, merged, probed) ==
    IF paths = <<>> THEN Loaded(merged, probed)
    ELSE
    LET candidate == Head(paths)
        loaded == LoadCandidate(fs, candidate)
    IN  IF FileAt(fs, candidate).kind = "missing"
        THEN build_mapping_loop(fs, Tail(paths), merged, probed + 1)
        ELSE IF loaded.raised \in {"OSError", "JSONDecodeError"}
        THEN build_mapping_loop(fs, Tail(paths), merged, probed + 1)
        ELSE IF loaded.raised # "none"
        THEN Raises(loaded.raised, probed + 1)
        ELSE IF DOMAIN loaded.mapping = {}
        THEN build_mapping_loop(fs, Tail(paths), merged, probed + 1)
        ELSE build_mapping_loop(fs, Tail(paths), loaded.mapping @@ merged, probed + 1)

build_mapping_from_sources(fs, paths) == build_mapping_loop(fs, paths, <<>>, 0)

\* the files of the model
JsonFile(payload) == [kind |-> "json", payload |-> payload]

SwordAndPotion ==
    JsonFile(DictV(<<Item("7", DictV(<<Item("name", StrV("Sword")), Item("icon", StrV("sword.png"))>>)),
                     Item("8", StrV("Potion"))>>))

BladeAndJunk ==
    JsonFile(DictV(<<Item("7", DictV(<<Item("Name", StrV("Blade")), Item("Icon", IntV(3))>>)),
                     Item("9", DictV(<<Item("name", StrV(""))>>)),
                     Item("comment", StrV("generated")),
                     Item("07", IntV(5))>>))

TableFile ==
    JsonFile(DictV(<<Item("row1", DictV(<<Item("Id", IntV(8)), Item("Name", StrV("Elixir")),
                                          Item("Icon", IntV(3))>>)),
                     Item("9", DictV(<<Item("Name", StrV("Ring")), Item("Icon", StrV("ring.png"))>>)),
                     Item("row3", DictV(<<Item("Name", StrV("Nameless"))>>)),
                     Item("7", StrV("Sword"))>>))

JsonList == JsonFile(ListV(<<IntV(1)>>))

NoEntries == JsonFile(DictV(<<Item("comment", StrV("empty")), Item("9", DictV(<<Item("name", IntV(5))>>))>>))

Files ==
    {NoFile, [kind |-> "unreadable", payload |-> NoneV], [kind |-> "not_utf8", payload |-> NoneV],
     [kind |-> "invalid_json", payload |-> NoneV],
     SwordAndPotion, BladeAndJunk, TableFile, JsonList, NoEntries}

SourcePaths ==
    {Path("data/game-data", "item_name_map.json"),
     Path("ref/StarResonanceData/ztable", "ItemTable.json"),
     Path("custom", "items.json")}

\* build_mapping_from_sources(paths), called directly
BuildCalls ==
    {[fn |-> "build_mapping_from_sources", state |-> "called",
      args |-> [fs |-> fs, paths |-> paths], result |-> <<>>] :
        fs \in [SourcePaths -> Files], paths \in SeqsUpTo(SourcePaths, MaxSources)}

CallBuildMapping ==
    /\ Called("build_mapping_from_sources")
    /\ LET r == build_mapping_from_sources(call.args.fs, call.args.paths) IN
       call' = Outcome(r.raised # "none", [mapping |-> r.mapping, error |-> r.raised])
    /\ UNCHANGED not_call

(***************************************************************************)
(* A process that calls load_item_mapping, which is wrapped in             *)
(* lru_cache(maxsize=1): the cache holds at most one (key, object) pair,   *)
(* the key being the argument as it was passed.  Objects are kept in a     *)
(* heap and named by their place in it, so that "the same object" can be   *)
(* told from "an equal one".                                               *)
(***************************************************************************)
\* an argument of load_item_mapping: none passed, None, or a tuple of paths
Omitted == [passed |-> "omitted", paths |-> <<>>]
ExplicitNone == [passed |-> "None", paths |-> <<>>]
TupleOf(paths) == [passed |-> "tuple", paths |-> paths]

\* mutant: every call is a miss
CacheHit_Never(cache, key) == FALSE

\* the lookup of the lru_cache wrapper
CacheHit(cache, key) == cache # <<>> /\ cache[1].key = key

\* load_item_mapping(search_paths), through the wrapper: a hit returns the
\* cached object; a miss runs the function, and what it returns replaces
\* the cache's entry
LoadItemMapping(arg) ==
    /\ catalog.pc = "ready"
    /\ Len(catalog.log) < MaxOps
    /\ IF CacheHit(catalog.cache, arg)
       THEN catalog' = [catalog EXCEPT
                !.log = Append(@, [op |-> "load", arg |-> arg, raised |-> "none",
                                   object |-> catalog.cache[1].object, probed |-> 0])]
       ELSE LET paths == IF arg.passed = "tuple" THEN arg.paths ELSE DEFAULT_SEARCH_LOCATIONS
                built == build_mapping_from_sources(catalog.fs, paths)
            IN  IF built.raised # "none"
                THEN catalog' = [catalog EXCEPT
                        !.log = Append(@, [op |-> "load", arg |-> arg, raised |-> built.raised,
                                           object |-> 0, probed |-> built.probed])]
                ELSE catalog' = [catalog EXCEPT
                        !.heap = Append(@, built.mapping),
                        !.cache = <<[key |-> arg, object |-> Len(catalog.heap) + 1]>>,
                        !.log = Append(@, [op |-> "load", arg |-> arg, raised |-> "none",
                                           object |-> Len(catalog.heap) + 1,
                                           probed |-> built.probed])]
    /\ UNCHANGED not_catalog

\* load_item_mapping.cache_clear()
CacheClear ==
    /\ catalog.pc = "ready"
    /\ Len(catalog.log) < MaxOps
    /\ catalog' = [catalog EXCEPT
            !.cache = <<>>,
            !.log = Append(@, [op |-> "cache_clear", arg |-> Omitted, raised |-> "none",
                               object |-> 0, probed |-> 0])]
    /\ UNCHANGED not_catalog

\* a file is deleted (temp_path.unlink() of test_caching_behavior)
Unlink(path) ==
    /\ catalog.pc = "ready"
    /\ Len(catalog.log) < MaxOps
    /\ catalog.fs[path].kind # "missing"
    /\ catalog' = [catalog EXCEPT
            !.fs[path] = NoFile,
            !.log = Append(@, [op |-> "unlink", arg |-> TupleOf(<<path>>), raised |-> "none",
                               object |-> 0, probed |-> 0])]
    /\ UNCHANGED not_catalog

CustomPath == Path("custom", "items.json")

LoadArguments == {Omitted, ExplicitNone, TupleOf(<<CustomPath>>)}

\* the process starts with an empty cache and one of a few filesystems
CatalogStart ==
    {[CatalogIdle EXCEPT !.pc = "ready",
                         !.fs = (DEFAULT_SEARCH_LOCATIONS[1] :> default) @@ (CustomPath :> custom)] :
        default \in {NoFile, SwordAndPotion}, custom \in {BladeAndJunk, SwordAndPotion}}

CatalogInit ==
    /\ DecodeIdle
    /\ trade = TradeIdle
    /\ reducer = ReducerIdle
    /\ \/ call \in BuildCalls /\ catalog = CatalogIdle
       \/ call = NoCall /\ catalog \in CatalogStart

CatalogNext ==
    \/ CallBuildMapping
    \/ \E arg \in LoadArguments : LoadItemMapping(arg)
    \/ CacheClear
    \/ \E path \in {DEFAULT_SEARCH_LOCATIONS[1], CustomPath} : Unlink(path)

CatalogSpec == CatalogInit /\ [][CatalogNext]_vars

(***************************************************************************)
(* Properties.                                                             *)
(***************************************************************************)
\* the activation whose loop is running
Cur == stack[Len(stack)]

\* the last position the parser examined
LastVisit == visited[Len(visited)]

\* the generator is about to examine a position
AtPosition == pc = "parse" /\ stack # <<>> /\ LoopCond(Cur)

\* the declared length at a position is below 6 or runs past the buffer
DeclaredLengthFails(view, offset) ==
    \/ U32BE(view, offset) < 6
    \/ offset + U32BE(view, offset) > Len(view)

\* C1: at a position whose declared length is below 6 or runs past the
\* buffer, the step taken moves the cursor of that activation one byte on,
\* adds one to resync_events, changes no other counter, and yields nothing.
C1_MissSlidesOneByte ==
    [][ (AtPosition /\ DeclaredLengthFails(Cur.view, Cur.offset)) =>
        /\ stack' = [stack EXCEPT ![Len(stack)].offset = @ + 1]
        /\ reader' = [reader EXCEPT !.resync_events = @ + 1]
        /\ yielded' = yielded
        /\ pc' = "parse" ]_vars

\* a miss of each kind has been taken: a declared length below 6, and one
\* that runs past the buffer
C1_Witness ==
    /\ Len(visited) >= 2
    /\ LET e == visited[Len(visited) - 1]
           f == LastVisit
       IN  /\ e.depth = f.depth
           /\ e.view = f.view
           /\ f.offset = e.offset + 1
           /\ U32BE(e.view, e.offset) >= 6
           /\ e.offset + U32BE(e.view, e.offset) > Len(e.view)
           /\ U32BE(f.view, f.offset) < 6
           /\ reader.resync_events >= 2
           /\ stack[f.depth].offset = f.offset + 1

\* C2: every loop iteration, at every nesting level, moves that activation's
\* cursor forward (by 1 on a miss, by the declared length, at least 6, on a
\* hit), and the run of the generator ends (exhausted, or abandoned by a
\* consumer that raised).
C2_Terminates ==
    /\ [][ AtPosition =>
            LET step == stack'[Len(stack)].offset - Cur.offset IN
            IF DeclaredLengthFails(Cur.view, Cur.offset)
            THEN step = 1
            ELSE step = U32BE(Cur.view, Cur.offset) /\ step >= 6 ]_vars
    /\ <>(pc \in {"done", "raised"})

\* the generator was exhausted after misses, a nested stream and yields
C2_Witness ==
    /\ pc = "done"
    /\ stack = <<>>
    /\ Len(yielded) >= 2
    /\ reader.resync_events >= 2
    /\ \E i \in 1..Len(visited) : visited[i].depth >= 2

\* the capture without the prepended bytes
Unprefixed == Slice(data, Len(prefix), Len(data))

\* the depth at which the i-th yielded frame was found
EmittedVisits == SelectSeq(visited, LAMBDA e : e.emitted)

\* a NotifyFrame without its offset
Fields(frame) ==
    [service_uid |-> frame.service_uid, stub_id |-> frame.stub_id,
     method_id |-> frame.method_id, payload |-> frame.payload,
     was_compressed |-> frame.was_compressed]

\* C3 as stated: behind any k prepended bytes, a (non-empty) valid buffer
\* gives k more resync_events than alone and the same NotifyFrames; the
\* frames are compared here without their offset.
C3_AnyGarbage ==
    (pc = "done" /\ Unprefixed # <<>>) =>
        LET alone == ParseAll(Unprefixed) IN
        /\ reader.resync_events = alone.reader.resync_events + Len(prefix)
        /\ Len(yielded) = Len(alone.yielded)
        /\ \A i \in 1..Len(yielded) : Fields(yielded[i]) = Fields(alone.yielded[i])

\* every prepended position fails the length check
PrefixAllMisses ==
    \A p \in 0..(Len(prefix) - 1) : DeclaredLengthFails(data, p)

\* C3, amended: behind k prepended bytes none of which starts a frame that
\* passes the length check, a non-empty valid buffer gives exactly k more
\* resync_events than alone and the same NotifyFrames, field by field,
\* except that the offset of a frame found at top level is larger by k.
C3_GarbageThatMisses ==
    (pc = "done" /\ Unprefixed # <<>> /\ PrefixAllMisses) =>
        LET alone == ParseAll(Unprefixed) IN
        /\ reader.resync_events = alone.reader.resync_events + Len(prefix)
        /\ Len(yielded) = Len(alone.yielded)
        /\ \A i \in 1..Len(yielded) :
              yielded[i] =
                [alone.yielded[i] EXCEPT
                    !.offset = @ + (IF EmittedVisits[i].depth = 1 THEN Len(prefix) ELSE 0)]

\* three bytes were prepended to a buffer that yields at top level and from
\* a nested stream
C3_Witness ==
    /\ pc = "done"
    /\ Len(prefix) >= 3
    /\ Unprefixed # <<>>
    /\ PrefixAllMisses
    /\ \E i, j \in 1..Len(yielded) :
          EmittedVisits[i].depth = 1 /\ EmittedVisits[j].depth = 2

\* The frames of a buffer, read off its bytes: the first frame's declared
\* length, packet type and body, and what follows it.
FirstLen(b) == U32BE(b, 0)
FirstType(b) == U16BE(b, 4) % 32768
FirstFlagged(b) == U16BE(b, 4) >= 32768
HasFirstFrame(b) == Len(b) >= 6 /\ FirstLen(b) >= 6 /\ FirstLen(b) <= Len(b)
FirstBody(b) == Slice(b, 6, FirstLen(b))
AfterFirst(b) == Slice(b, FirstLen(b), Len(b))
Nested(body) == Slice(body, 4, Len(body))

\* b is a concatenation of well-formed, uncompressed frames: each fits, no
\* flag is set, a Notify body carries its 16 header bytes, a FrameDown body
\* carries its sequence number and a nested stream of the same kind
RECURSIVE WellFormed(_)
WellFormed(b) ==
    \/ b = <<>>
    \/ /\ HasFirstFrame(b)
       /\ ~FirstFlagged(b)
       /\ FirstType(b) = 2 => Len(FirstBody(b)) >= 16
       /\ FirstType(b) = 6 =>
            Len(FirstBody(b)) >= 4 /\ WellFormed(Nested(FirstBody(b)))
       /\ WellFormed(AfterFirst(b))

\* the frames of a well-formed buffer, top level only, whose fragment type
\* is among `types`
RECURSIVE TopCount(_, _)
TopCount(b, types) ==
    IF b = <<>> THEN 0
    ELSE (IF FirstType(b) \in types THEN 1 ELSE 0) + TopCount(AfterFirst(b), types)

\* the same, nested streams included
RECURSIVE TreeCount(_, _)
TreeCount(b, types) ==
    IF b = <<>> THEN 0
    ELSE (IF FirstType(b) \in types THEN 1 ELSE 0)
         + (IF FirstType(b) = 6 THEN TreeCount(Nested(FirstBody(b)), types) ELSE 0)
         + TreeCount(AfterFirst(b), types)

AnyFrame == 0..32767
NotifyFrameAt == {2}

\* C4 as stated: a buffer of N well-formed uncompressed frames leaves
\* frames_parsed = N, resync_events = 0 and notify_frames = the number of
\* Notify frames among the N.
C4_CountsTopLevel ==
    (pc = "done" /\ WellFormed(data)) =>
        /\ reader.frames_parsed = TopCount(data, AnyFrame)
        /\ reader.resync_events = 0
        /\ reader.notify_frames = TopCount(data, NotifyFrameAt)

\* C4, amended: frames_parsed and notify_frames count the frames and the
\* Notify frames of every nesting level.
C4_CountsWholeTree ==
    (pc = "done" /\ WellFormed(data)) =>
        /\ reader.frames_parsed = TreeCount(data, AnyFrame)
        /\ reader.resync_events = 0
        /\ reader.notify_frames = TreeCount(data, NotifyFrameAt)

\* a well-formed buffer with nested Notify frames was parsed to the end
C4_Witness ==
    /\ pc = "done"
    /\ WellFormed(data)
    /\ TopCount(data, AnyFrame) = 2
    /\ TopCount(data, NotifyFrameAt) = 1
    /\ TreeCount(data, NotifyFrameAt) >= 3

\* what identifies a Notify: its routing fields and payload
NotifyId(uid, stub, method, payload) ==
    [service_uid |-> uid, stub_id |-> stub, method_id |-> method, payload |-> payload]

BodyId(body) ==
    NotifyId(Slice(body, 0, 8), Slice(body, 8, 12), Slice(body, 12, 16),
             Slice(body, 16, Len(body)))

\* the Notify frames of a well-formed buffer in depth-first pre-order: a
\* carrier's nested frames stand where the carrier stands
RECURSIVE PreOrder(_)
PreOrder(b) ==
    IF b = <<>> THEN <<>>
    ELSE (IF FirstType(b) = 2 THEN <<BodyId(FirstBody(b))>>
          ELSE IF FirstType(b) = 6 THEN PreOrder(Nested(FirstBody(b)))
          ELSE <<>>)
         \o PreOrder(AfterFirst(b))

IsPrefix(s, t) == Len(s) <= Len(t) /\ s = SubSeq(t, 1, Len(s))

YieldedIds ==
    [i \in 1..Len(yielded) |->
        NotifyId(yielded[i].service_uid, yielded[i].stub_id,
                 yielded[i].method_id, yielded[i].payload)]

\* the yielded frames whose for body has run to its end
ConsumedIds ==
    IF pc \in {"handed", "raised"}
    THEN SubSeq(YieldedIds, 1, Len(YieldedIds) - 1)
    ELSE YieldedIds

Routed(id) == id.service_uid = SERVICE_UID /\ id.method_id \in DOMAIN METHOD_TO_MESSAGE

\* C5: the frames of a well-formed buffer are yielded in depth-first
\* pre-order (at every moment a prefix of that order, at the end all of it),
\* and the records written are those of the routed frames consumed so far,
\* in that same order.
C5_PreOrder ==
    WellFormed(data) =>
        /\ IsPrefix(YieldedIds, PreOrder(data))
        /\ pc = "done" => YieldedIds = PreOrder(data)
        /\ LET routed == SelectSeq(ConsumedIds, Routed) IN
           /\ Len(output) = Len(routed)
           /\ \A j \in 1..Len(output) :
                 /\ output[j].stub_id = routed[j].stub_id
                 /\ output[j].method_id = routed[j].method_id

\* a carrier standing between two Notify frames, with a carrier nested in
\* it, was parsed to the end and its routed frames written
C5_Witness ==
    /\ pc = "done"
    /\ WellFormed(data)
    /\ TopCount(data, AnyFrame) = 3
    /\ Len(yielded) = 5
    /\ EmittedVisits[1].depth = 1
    /\ EmittedVisits[2].depth = 2
    /\ EmittedVisits[3].depth = 3
    /\ EmittedVisits[4].depth = 2
    /\ EmittedVisits[5].depth = 1
    /\ Len(output) = 3

\* the position under the cursor starts a validly framed frame of this type
FrameAtCursor(type) ==
    /\ AtPosition
    /\ ~DeclaredLengthFails(Cur.view, Cur.offset)
    /\ U16BE(Cur.view, Cur.offset + 4) % 32768 = type

CursorBody == Slice(Cur.view, Cur.offset + 6, Cur.offset + U32BE(Cur.view, Cur.offset))

\* C6 as stated: a validly framed FrameDown with a body of at most 4 bytes
\* adds one to frames_parsed, yields nothing and leaves resync_events and
\* notify_frames unchanged.
C6_ShortFrameDownSilent ==
    [][ (FrameAtCursor(6) /\ Len(CursorBody) <= 4) =>
        /\ reader'.frames_parsed = reader.frames_parsed + 1
        /\ yielded' = yielded
        /\ reader'.resync_events = reader.resync_events
        /\ reader'.notify_frames = reader.notify_frames ]_vars

\* C6, amended: such a frame adds one to frames_parsed and to the
\* histogram entry of type 6, yields nothing, starts no nested parse and
\* leaves notify_frames unchanged; resync_events is unchanged when the body
\* is exactly 4 bytes and grows by one when it is shorter.
C6_ShortFrameDownCounted ==
    [][ (FrameAtCursor(6) /\ Len(CursorBody) <= 4) =>
        /\ reader' = [reader EXCEPT
                !.frames_parsed = @ + 1,
                !.fragment_histogram = Bump(@, 6),
                !.resync_events = @ + (IF Len(CursorBody) < 4 THEN 1 ELSE 0)]
        /\ yielded' = yielded
        /\ stack' = [stack EXCEPT ![Len(stack)].offset = @ + 6 + Len(CursorBody)] ]_vars

\* the 8-byte FrameDown with body "ab" was parsed after one with a body of
\* exactly 4 bytes
C6_Witness ==
    /\ pc = "done"
    /\ data = <<0, 0, 0, 10, 0, 6, 0, 0, 0, 1>> \o <<0, 0, 0, 8, 0, 6, 97, 98>>
    /\ reader.frames_parsed = 2
    /\ reader.resync_events = 1
    /\ yielded = <<>>

\* the positions examined so far that did not start a valid frame
MissedVisits ==
    {i \in 1..Len(visited) : DeclaredLengthFails(visited[i].view, visited[i].offset)}

\* C7 as stated: resync_events is at most the number of positions examined
\* that did not start a valid frame.
C7_OnlyMissesCount == reader.resync_events <= Cardinality(MissedVisits)

\* the frame at a position that passed the length check
VisitedFrame(e) == Slice(e.view, e.offset, e.offset + U32BE(e.view, e.offset))

\* a flagged payload that begins with the magic and does not decompress
\* within the cap
FailsToDecompress(flagged, payload) ==
    /\ flagged
    /\ StartsWith(payload, ZSTD_MAGIC)
    /\ ZstdStream(payload).error \/ ZstdStream(payload).size > 10 * 1024 * 1024

\* a validly framed frame f that is truncated or whose payload fails to
\* decompress
Flawed(f) ==
    LET body == FirstBody(f) IN
    \/ FirstType(f) = 2 /\ Len(body) < 16
    \/ FirstType(f) = 2 /\ Len(body) >= 16
          /\ FailsToDecompress(FirstFlagged(f), Slice(body, 16, Len(body)))
    \/ FirstType(f) = 6 /\ Len(body) < 4
    \/ FirstType(f) = 6 /\ Len(body) >= 4
          /\ FailsToDecompress(FirstFlagged(f), Slice(body, 4, Len(body)))

FlawedVisits ==
    {i \in 1..Len(visited) :
        /\ ~DeclaredLengthFails(visited[i].view, visited[i].offset)
        /\ Flawed(VisitedFrame(visited[i]))}

\* C7, amended: resync_events is the number of positions examined that did
\* not start a valid frame plus the number of validly framed frames that
\* were a Notify with a body under 16 bytes, a FrameDown with a body under 4
\* bytes, or a flagged frame whose payload begins with the zstd magic and
\* fails to decompress within the cap.
C7_MissesAndFlawedFramesCount ==
    reader.resync_events = Cardinality(MissedVisits) + Cardinality(FlawedVisits)

\* a run with misses and with valid frames that added resync events
C7_Witness ==
    /\ pc = "done"
    /\ Cardinality(MissedVisits) >= 2
    /\ Cardinality(FlawedVisits) >= 2
    /\ \E i \in FlawedVisits : FirstFlagged(VisitedFrame(visited[i]))
    /\ \E i \in FlawedVisits : ~FirstFlagged(VisitedFrame(visited[i]))

CursorFlagged == U16BE(Cur.view, Cur.offset + 4) >= 32768

\* the payload a Notify body, or a FrameDown body, hands to the decompressor
NotifyPayload == Slice(CursorBody, 16, Len(CursorBody))
CarriedStream == Slice(CursorBody, 4, Len(CursorBody))

\* the cursor's activation, moved past the frame under the cursor
PastFrame == [stack EXCEPT ![Len(stack)].offset = @ + U32BE(Cur.view, Cur.offset)]

\* C8: a flagged payload that begins with the zstd magic and expands beyond
\* 10 MiB, or fails to decompress, comes back as the original bytes,
\* undecompressed, for one more resync event and nothing on
\* zstd_flag_without_magic; nothing is raised: the Notify is yielded with
\* the raw payload, the FrameDown's raw stream is parsed as nested frames,
\* and the cursor moves on by the frame's length.
C8_FailedDecompressionKeepsRaw ==
    /\ [][ (FrameAtCursor(2) /\ Len(CursorBody) >= 16
              /\ FailsToDecompress(CursorFlagged, NotifyPayload)) =>
            /\ reader' = [reader EXCEPT
                    !.frames_parsed = @ + 1,
                    !.fragment_histogram = Bump(@, 2),
                    !.resync_events = @ + 1,
                    !.notify_frames = @ + 1]
            /\ yielded' = Append(yielded,
                    [service_uid |-> Slice(CursorBody, 0, 8),
                     stub_id |-> Slice(CursorBody, 8, 12),
                     method_id |-> Slice(CursorBody, 12, 16),
                     payload |-> NotifyPayload,
                     was_compressed |-> FALSE,
                     offset |-> Cur.offset])
            /\ stack' = PastFrame
            /\ pc' = "handed" ]_vars
    /\ [][ (FrameAtCursor(6) /\ Len(CursorBody) >= 4
              /\ FailsToDecompress(CursorFlagged, CarriedStream)) =>
            /\ reader' = [reader EXCEPT
                    !.frames_parsed = @ + 1,
                    !.fragment_histogram = Bump(@, 6),
                    !.resync_events = @ + 1]
            /\ yielded' = yielded
            /\ stack' = Append(PastFrame, [view |-> CarriedStream, offset |-> 0])
            /\ pc' = "parse" ]_vars

\* a Notify whose payload expands beyond the cap and a FrameDown whose
\* stream is corrupt were both parsed
C8_Witness ==
    /\ \E i \in FlawedVisits :
          LET f == VisitedFrame(visited[i]) IN
          /\ FirstType(f) = 2
          /\ ~ZstdStream(Slice(FirstBody(f), 16, Len(FirstBody(f)))).error
          /\ visited[i].emitted
    /\ \E i \in FlawedVisits :
          LET f == VisitedFrame(visited[i]) IN
          /\ FirstType(f) = 6
          /\ FirstFlagged(f)
          /\ ZstdStream(Slice(FirstBody(f), 4, Len(FirstBody(f)))).error
    /\ \E i \in 1..Len(yielded) :
          ~yielded[i].was_compressed /\ StartsWith(yielded[i].payload, ZSTD_MAGIC)

\* the decompressor runs to the end on this payload: the flag is set, the
\* payload is not empty, begins with the magic, and decompresses within the cap
Decompresses(flagged, payload) ==
    /\ flagged
    /\ payload # <<>>
    /\ StartsWith(payload, ZSTD_MAGIC)
    /\ ~ZstdStream(payload).error
    /\ ZstdStream(payload).size <= 10 * 1024 * 1024

\* C9: a yielded frame's was_compressed is true exactly when the flag was
\* set and the non-empty payload began with the magic and decompressed
\* within the cap; otherwise the payload (or the nested stream) is the input
\* bytes; and without the flag the decompressor touches no counter.
C9_DecompressedIffRan ==
    /\ [][ (FrameAtCursor(2) /\ Len(CursorBody) >= 16) =>
            /\ Len(yielded') = Len(yielded) + 1
            /\ yielded'[Len(yielded')].was_compressed
                    = Decompresses(CursorFlagged, NotifyPayload)
            /\ ~Decompresses(CursorFlagged, NotifyPayload)
                    => yielded'[Len(yielded')].payload = NotifyPayload
            /\ ~CursorFlagged =>
                    reader' = [reader EXCEPT
                        !.frames_parsed = @ + 1,
                        !.fragment_histogram = Bump(@, 2),
                        !.notify_frames = @ + 1] ]_vars
    /\ [][ (FrameAtCursor(6) /\ Len(CursorBody) > 4) =>
            /\ ~Decompresses(CursorFlagged, CarriedStream)
                    => stack' = Append(PastFrame, [view |-> CarriedStream, offset |-> 0])
            /\ ~CursorFlagged =>
                    reader' = [reader EXCEPT
                        !.frames_parsed = @ + 1,
                        !.fragment_histogram = Bump(@, 6)] ]_vars

\* a decompressed frame was yielded, and then an unflagged one whose
\* payload begins with the magic
C9_Witness ==
    /\ Len(yielded) = 2
    /\ yielded[1].was_compressed
    /\ yielded[1].payload = <<8, 1>>
    /\ ~yielded[2].was_compressed
    /\ StartsWith(yielded[2].payload, ZSTD_MAGIC)
    /\ reader.resync_events = 0
    /\ reader.zstd_flag_without_magic = 0

\* C10: a frame of another service, or of a method outside the table, makes
\* decode return None whatever its payload: the for body ends without
\* raising, writes no line and counts no method.
C10_UnroutedFramesSkipped ==
    [][ (pc = "handed" /\ ~Routed(YieldedIds[Len(yielded)])) =>
        /\ pc' = "parse"
        /\ output' = output
        /\ method_hist' = method_hist ]_vars

\* a frame of another service and a frame of an unknown method, both with
\* a malformed payload, were consumed and nothing was written
C10_Witness ==
    /\ pc = "done"
    /\ Len(yielded) = 2
    /\ yielded[1].service_uid # SERVICE_UID
    /\ yielded[2].service_uid = SERVICE_UID
    /\ yielded[2].method_id \notin DOMAIN METHOD_TO_MESSAGE
    /\ ~ProtoParse(yielded[1].payload).ok
    /\ ~ProtoParse(yielded[2].payload).ok
    /\ output = <<>>
    /\ method_hist = <<>>

\* the frame handed to the for body passes the service and method filter
\* and its payload is not a protobuf message
HandedMalformed ==
    /\ pc = "handed"
    /\ Routed(YieldedIds[Len(yielded)])
    /\ ~ProtoParse(Handed.payload).ok

\* C11: a frame that passes the service and method filter with a malformed
\* payload makes decode return None, for either decoder: the for body ends
\* without raising, writes nothing, and the loop goes on with the frames
\* that follow.
C11_MalformedPayloadYieldsNone ==
    [][ HandedMalformed =>
        /\ pc' = "parse"
        /\ output' = output
        /\ method_hist' = method_hist ]_vars

\* the run ended on the DecodeError of a routed frame while the capture
\* still held a frame behind it
C11_Witness ==
    /\ pc = "raised"
    /\ Routed(YieldedIds[Len(yielded)])
    /\ ~ProtoParse(Handed.payload).ok
    /\ stack # <<>>
    /\ LoopCond(Cur)

\* price and quantity are ints, field 3 is a sub-message that has a field 2
Qualifies(entry) ==
    /\ entry.t = "dict"
    /\ Get(entry.v, 1).t = "int"
    /\ Get(entry.v, 2).t = "int"
    /\ Get(entry.v, 3).t = "dict"
    /\ Has(Get(entry.v, 3).v, 2)

\* the entries of the block a segment holds: the list under field 1, field 2
BlockEntries(segment) ==
    LET decoded == decode_message(segment) IN
    IF decoded.ok /\ Get(decoded.dict, 1).t = "dict"
          /\ Get(Get(decoded.dict, 1).v, 2).t = "list"
    THEN Get(Get(decoded.dict, 1).v, 2).v
    ELSE <<>>

\* the segment the scan cuts out at its cursor
SegmentAtCursor ==
    Slice(trade.nested, trade.idx, ScanVarint.pos + ScanVarint.value)

\* extract_listing_blocks stands at a tag whose segment it will cut
ScanAtSegment ==
    /\ Scanning
    /\ trade.decoder = "v1"
    /\ trade.nested[trade.idx + 1] = 10
    /\ ~ScanVarint.raised
    /\ ScanVarint.pos + ScanVarint.value <= Len(trade.nested)

\* C12 as stated: every Listing comes from an entry whose price and
\* quantity are integers and whose field 3 is a sub-message with an integer
\* field 2, so every Listing has an integer item_config_id.
C12_ListingsHaveIntegerItemId ==
    \A i \in 1..Len(trade.listings) :
        /\ Qualifies(DictV(trade.listings[i].raw_entry))
        /\ trade.listings[i].item_config_id.t = "int"

\* C12, amended: every Listing comes from an entry whose price and quantity
\* are integers and whose field 3 is a sub-message that has a field 2, and
\* carries that price and quantity; its item_config_id is field 2 of the
\* sub-message when that is an integer and None otherwise.  A segment adds
\* one Listing per such entry and none for any other entry.
C12_ListingsFromQualifyingEntries ==
    [][ /\ \A i \in 1..Len(trade'.listings) :
            LET l == trade'.listings[i]
                item_id == Get(Get(l.raw_entry, 3).v, 2)
            IN  /\ Qualifies(DictV(l.raw_entry))
                /\ l.price_luno = Get(l.raw_entry, 1).v
                /\ l.quantity = Get(l.raw_entry, 2).v
                /\ l.item_config_id = (IF item_id.t = "int" THEN item_id ELSE NoneV)
        /\ ScanAtSegment =>
            Len(trade'.listings) - Len(trade.listings) =
                Cardinality({i \in 1..Len(BlockEntries(SegmentAtCursor)) :
                                Qualifies(BlockEntries(SegmentAtCursor)[i])})
      ]_vars

\* a block of five entries, four of them ill-typed, gave one Listing, and a
\* block with a bytes item id gave a Listing whose item_config_id is None
C12_Witness ==
    /\ trade.pc = "done"
    /\ Len(trade.listings) = 4
    /\ trade.listings[1].server_sequence = <<0, 0, 0, 4>>
    /\ trade.listings[2].server_sequence = <<0, 0, 0, 3>>
    /\ trade.listings[2].item_config_id = NoneV
    /\ trade.listings[3].item_config_id = IntV(7)
    /\ trade.listings[4].item_config_id = NoneV

\* the positions from start on that hold a byte with its high bit clear
Terminators(bytes, start) ==
    {p \in start..(Len(bytes) - 1) : bytes[p + 1] < 128}

\* the first of them
FirstTerminator(bytes, start) ==
    CHOOSE p \in Terminators(bytes, start) : \A q \in Terminators(bytes, start) : p <= q

\* sum over the bytes at start .. last of (b & 0x7F) << 7i, i counted from start
RECURSIVE SevenBitSum(_, _, _)
SevenBitSum(bytes, start, last) ==
    IF last < start THEN 0
    ELSE (bytes[last + 1] % 128) * (128 ^ (last - start)) + SevenBitSum(bytes, start, last - 1)

\* C13: read_varint(data, start) consumes the bytes from start up to and
\* including the first one with its high bit clear and returns the sum of
\* their low seven bits, each shifted by seven times its index, with the
\* position behind them; it raises exactly when the buffer holds no such
\* byte from start on.  In the scan that error moves the cursor one byte on
\* and the scan continues with everything else as it was.
C13_ReadVarint ==
    [][ /\ Called("read_varint") =>
            LET bytes == call.args.data
                start == call.args.start
            IN  IF Terminators(bytes, start) = {}
                THEN call'.state = "raised"
                ELSE /\ call'.state = "returned"
                     /\ call'.result.value =
                            SevenBitSum(bytes, start, FirstTerminator(bytes, start))
                     /\ call'.result.pos = FirstTerminator(bytes, start) + 1
        /\ (Scanning /\ trade.nested[trade.idx + 1] = 10
               /\ Terminators(trade.nested, trade.idx + 1) = {}) =>
            trade' = [trade EXCEPT !.idx = @ + 1]
      ]_vars

\* a scan has read a two-byte length (0x81 0x00), taken the listings of the
\* block behind it, and has just stepped one byte past the final tag, whose
\* varint runs off the block
C13_Witness ==
    /\ trade.pc = "scan"
    /\ Len(trade.nested) > 7
    /\ Slice(trade.nested, 0, 4) = <<10, 129, 0, 120>>
    /\ Slice(trade.nested, Len(trade.nested) - 3, Len(trade.nested)) = <<10, 255, 255>>
    /\ trade.idx = Len(trade.nested) - 2
    /\ Len(trade.listings) = 2

\* two listings have the same (item_config_id, price_luno, quantity)
SameTriple(a, b) ==
    /\ a.item_config_id = b.item_config_id
    /\ a.price_luno = b.price_luno
    /\ a.quantity = b.quantity

\* the positions of the listings that are the first with their triple
FirstSeen(listings) ==
    {i \in 1..Len(listings) : \A j \in 1..(i - 1) : ~SameTriple(listings[j], listings[i])}

\* entries holds one entry per first-seen listing, in the order of the
\* listings, with that listing's triple and metadata
Consolidated(listings, entries) ==
    /\ Len(entries) = Cardinality(FirstSeen(listings))
    /\ \A i \in FirstSeen(listings) :
          LET k == Cardinality({j \in FirstSeen(listings) : j <= i}) IN
          /\ entries[k].item_id = listings[i].item_config_id
          /\ entries[k].price_luno = listings[i].price_luno
          /\ entries[k].quantity = listings[i].quantity
          /\ entries[k].metadata.frame_offset = listings[i].frame_offset
          /\ entries[k].metadata.server_sequence = listings[i].server_sequence
          /\ entries[k].metadata.raw_entry = listings[i].raw_entry

\* iter_frames is exhausted and main is about to consolidate
AtTradeFinish == trade.pc = "frames" /\ ~TradeLoopCond

\* C14: consolidate gives one entry per distinct (item_config_id,
\* price_luno, quantity), with the metadata of the first listing that has
\* the triple, in the order in which the triples were first seen; listings
\* that differ in a component are not merged.
C14_FirstOccurrenceWins ==
    [][ /\ Called("consolidate") => Consolidated(call.args.listings, call'.result)
        /\ AtTradeFinish => Consolidated(trade.listings, trade'.result)
      ]_vars

\* three listings were consolidated into two entries: the first and the
\* third share a triple and differ in their place, the second differs from
\* them in its quantity alone
C14_Witness ==
    /\ call.fn = "consolidate" /\ call.state = "returned"
    /\ Len(call.args.listings) = 3
    /\ SameTriple(call.args.listings[1], call.args.listings[3])
    /\ call.args.listings[1].frame_offset # call.args.listings[3].frame_offset
    /\ call.args.listings[2].quantity # call.args.listings[1].quantity
    /\ call.args.listings[2].price_luno = call.args.listings[1].price_luno
    /\ call.args.listings[2].item_config_id = call.args.listings[1].item_config_id
    /\ Len(call.result) = 2
    /\ call.result[1].metadata.frame_offset = call.args.listings[1].frame_offset

\* the resolver was passed, the listing has an item id, and the resolver
\* returns a record for it
Resolves(listing, resolver) ==
    /\ resolver.given
    /\ listing.item_config_id # NoneV
    /\ listing.item_config_id.v \in DOMAIN resolver.mapping

\* d is the dict of listing: the fixed keys, and the optional ones exactly
\* when they are due
DictOf(listing, resolver, d) ==
    /\ {"price_luno", "quantity", "item_id", "metadata"} \subseteq DOMAIN d
    /\ {"frame_offset", "server_sequence", "raw_entry"} \subseteq DOMAIN d.metadata
    /\ DOMAIN d \subseteq {"price_luno", "quantity", "item_id", "metadata", "item_name"}
    /\ DOMAIN d.metadata \subseteq {"frame_offset", "server_sequence", "raw_entry", "item_icon"}
    /\ d.price_luno = listing.price_luno
    /\ d.quantity = listing.quantity
    /\ d.item_id = listing.item_config_id
    /\ d.metadata.frame_offset = listing.frame_offset
    /\ d.metadata.server_sequence = listing.server_sequence
    /\ d.metadata.raw_entry = listing.raw_entry
    /\ "item_name" \in DOMAIN d <=> Resolves(listing, resolver)
    /\ "item_icon" \in DOMAIN d.metadata <=>
          (Resolves(listing, resolver)
              /\ resolver.mapping[listing.item_config_id.v].icon # "")
    /\ Resolves(listing, resolver) =>
          d.item_name = resolver.mapping[listing.item_config_id.v].name
    /\ "item_icon" \in DOMAIN d.metadata =>
          d.metadata.item_icon = resolver.mapping[listing.item_config_id.v].icon

\* every entry is the dict of one of the listings
DictsOf(listings, resolver, entries) ==
    \A k \in 1..Len(entries) :
        \E i \in 1..Len(listings) : DictOf(listings[i], resolver, entries[k])

\* C15: item_name and metadata.item_icon are absent when no resolver is
\* passed, the item id is None or the resolver returns no record; when it
\* returns one, item_name is set and item_icon is set only if the record
\* has an icon; price_luno, quantity, item_id and the three metadata keys
\* are always there.  This holds for to_dict and for every entry of
\* consolidate.
C15_OptionalKeys ==
    [][ /\ Called("to_dict") =>
            DictOf(call.args.listing, call.args.resolver, call'.result)
        /\ Called("consolidate") =>
            DictsOf(call.args.listings, call.args.resolver, call'.result)
        /\ AtTradeFinish => DictsOf(trade.listings, trade.resolver, trade'.result)
      ]_vars

\* consolidate, given the resolver, returned three entries: one named with
\* an icon, one named without an icon, and one whose id the resolver does
\* not know
C15_Witness ==
    /\ call.fn = "consolidate" /\ call.state = "returned"
    /\ call.args.resolver.given
    /\ Len(call.result) = 3
    /\ call.result[1].item_id = IntV(7)
    /\ "item_icon" \in DOMAIN call.result[1].metadata
    /\ call.result[2].item_id = IntV(8)
    /\ "item_name" \in DOMAIN call.result[2]
    /\ "item_icon" \notin DOMAIN call.result[2].metadata
    /\ call.result[3].item_id = IntV(9)
    /\ "item_name" \notin DOMAIN call.result[3]

(***************************************************************************)
(* The reducer's damage entries.                                           *)
(***************************************************************************)
\* the calls of _process_damage made so far
Handled == {reducer.handled[i] : i \in 1..Len(reducer.handled)}

AttackerOf(h) == parse_int(Get(h.damage, "attacker_uuid"))

IsHeal(h) == IsStr(Get(h.damage, "type"), "E_DAMAGE_TYPE_HEAL")

IsMiss(h) == Truthy(Get(h.damage, "is_miss"))

\* the call added the entry to the totals
Credited(h) == h.after.hits = h.before.hits + 1

\* the player is known and the entry names another attacker
ForeignAttacker(h) ==
    /\ h.before.player_uuid # NoneV
    /\ AttackerOf(h) # NoneV
    /\ AttackerOf(h) # h.before.player_uuid

\* C16: a damage entry processed while player_uuid is set, whose
\* attacker_uuid parses and differs from player_uuid, leaves the whole
\* reducer (counters, timestamps, buckets) as it was; an entry processed
\* while player_uuid is unset, or that has no attacker_uuid, is not stopped
\* by the attribution filter: unless it is a heal or a miss, it is credited
\* exactly when it carries a positive value.
C16_AttributionFilter ==
    \A h \in Handled :
        /\ ForeignAttacker(h) => h.after = h.before
        /\ (h.before.player_uuid = NoneV \/ ~Has(h.damage, "attacker_uuid"))
              /\ ~IsHeal(h) /\ ~IsMiss(h)
           => (Credited(h) <=> (raw_value_of(h.damage) # NoneV
                                  /\ raw_value_of(h.damage).v > 0))

\* attacker 9 is credited before the player is known and skipped once the
\* player is 7, while an entry without attacker is credited after that
C16_Witness ==
    /\ \E h \in Handled :
          /\ h.before.player_uuid = IntV(7) /\ AttackerOf(h) = IntV(9)
          /\ raw_value_of(h.damage) = IntV(10)
          /\ h.before.total_damage > 0 /\ h.after = h.before
    /\ \E h \in Handled :
          h.before.player_uuid = NoneV /\ AttackerOf(h) = IntV(9) /\ Credited(h)
    /\ \E h \in Handled :
          /\ h.before.player_uuid = IntV(7) /\ ~Has(h.damage, "attacker_uuid")
          /\ Credited(h)

\* the fields a credited entry changes
Contribution(self) ==
    <<self.total_damage, self.hits, self.crits, self.start_time_ms,
      self.end_time_ms, self.skill_buckets, self.target_buckets>>

\* C17: a damage entry whose type is "E_DAMAGE_TYPE_HEAL" or whose is_miss
\* is truthy never contributes: the call leaves total_damage, hits, crits,
\* start_time_ms, end_time_ms, skill_buckets and target_buckets as they
\* were, whatever its value fields and its attacker are.
C17_HealAndMissNeverContribute ==
    \A h \in Handled :
        IsHeal(h) \/ IsMiss(h) => Contribution(h.after) = Contribution(h.before)

\* a heal by the player with a positive value and a skill id, and a miss
\* with a positive value, handled after other entries were credited and
\* the server time is known
C17_Witness ==
    /\ \E h \in Handled :
          /\ IsHeal(h) /\ AttackerOf(h) = h.before.player_uuid
          /\ raw_value_of(h.damage) = IntV(50)
          /\ h.before.total_damage > 0
    /\ \E h \in Handled :
          /\ IsMiss(h) /\ ~IsHeal(h) /\ raw_value_of(h.damage) = IntV(30)
          /\ h.target_uuid # NoneV
          /\ h.before.current_server_time_ms # NoneV

\* the four value fields, in the order _process_damage reads them
ValueFields == <<"actual_value", "value", "hp_lessen_value", "lucky_value">>

\* the fields of the entry that hold a positive integer
PositiveFields(damage) ==
    {i \in 1..Len(ValueFields) :
        /\ parse_int(Get(damage, ValueFields[i])) # NoneV
        /\ parse_int(Get(damage, ValueFields[i])).v > 0}

FirstPositive(damage) ==
    parse_int(Get(damage, ValueFields[CHOOSE i \in PositiveFields(damage) :
                                         \A j \in PositiveFields(damage) : i <= j])).v

\* C18: the value credited for a damage entry that is not filtered out is
\* the first positive integer among actual_value, value, hp_lessen_value
\* and lucky_value in that order, a missing, unparseable, zero or negative
\* field falling through to the next; the entry is skipped only if none of
\* the four holds a positive integer.
C18_FirstPositiveValueCredited ==
    \A h \in Handled :
        ~IsHeal(h) /\ ~IsMiss(h) /\ ~ForeignAttacker(h) =>
            IF PositiveFields(h.damage) = {}
            THEN h.after = h.before
            ELSE /\ Credited(h)
                 /\ h.after.total_damage
                       = h.before.total_damage + FirstPositive(h.damage)

\* an entry with actual_value -5 and value 10 has been handled
C18_Witness ==
    \E h \in Handled :
        /\ Get(h.damage, "actual_value") = IntV(0 - 5)
        /\ Get(h.damage, "value") = IntV(10)
        /\ ~ForeignAttacker(h)

\* process_records has been run twice over the same lines
TwoPassesDone == reducer.pc = "done" /\ reducer.passes = 2

\* C19 (as stated): processing the same record sequence twice through one
\* CombatReducer gives a total_damage exactly twice that of a single pass,
\* for every record sequence.
C19_TwicePassDoubles ==
    TwoPassesDone => reducer.self.total_damage = 2 * reducer.first_total

\* an entry credited in the first pass while player_uuid was still unset,
\* whose attacker_uuid parses and is not the player_uuid that is set later
CreditedToStranger(h) ==
    /\ h.pass = 1
    /\ h.before.player_uuid = NoneV
    /\ Credited(h)
    /\ AttackerOf(h) # NoneV
    /\ reducer.self.player_uuid # NoneV
    /\ AttackerOf(h) # reducer.self.player_uuid

\* C19 (amended): processing the same record sequence twice through one
\* CombatReducer gives a total_damage exactly twice that of a single pass,
\* for every record sequence in which no damage entry credited before
\* player_uuid is first set carries a parseable attacker_uuid different
\* from the player_uuid the sequence ends with (none does when player_uuid
\* is never set).
C19_TwicePassDoublesUnlessStranger ==
    TwoPassesDone /\ (\A h \in Handled : ~CreditedToStranger(h))
        => reducer.self.total_damage = 2 * reducer.first_total

\* two passes that credit entries before and after player_uuid is set,
\* reject a foreign attacker in both, and end with twice the first total
C19_Witness ==
    /\ TwoPassesDone
    /\ \A h \in Handled : ~CreditedToStranger(h)
    /\ reducer.self.player_uuid # NoneV
    /\ reducer.first_total > 0
    /\ reducer.self.total_damage = 2 * reducer.first_total
    /\ \E h \in Handled : h.pass = 1 /\ h.before.player_uuid = NoneV /\ Credited(h)
    /\ \E h \in Handled : h.pass = 2 /\ ForeignAttacker(h)

\* the sum of damage over the buckets of the given keys
RECURSIVE SumDamage(_, _)
SumDamage(buckets, keys) ==
    IF keys = {} THEN 0
    ELSE LET key == CHOOSE k \in keys : TRUE IN
         buckets[key].damage + SumDamage(buckets, keys \ {key})

BucketSum(buckets) == SumDamage(buckets, DOMAIN buckets)

\* the entry yields a skill id: owner_id parses to a non-zero integer, or
\* hit_event_id parses to an integer
HasSkillId(h) ==
    \/ /\ parse_int(Get(h.damage, "owner_id")) # NoneV
       /\ parse_int(Get(h.damage, "owner_id")).v # 0
    \/ parse_int(Get(h.damage, "hit_event_id")) # NoneV

\* the delta of the entry had a uuid
HasTarget(h) == h.target_uuid # NoneV

\* the damage of the credited entries of the log that had no skill id
RECURSIVE DamageWithoutSkill(_)
DamageWithoutSkill(log) ==
    IF log = <<>> THEN 0
    ELSE (IF Credited(Head(log)) /\ ~HasSkillId(Head(log))
          THEN Head(log).after.total_damage - Head(log).before.total_damage
          ELSE 0)
         + DamageWithoutSkill(Tail(log))

\* the damage of the credited entries of the log whose delta had no uuid
RECURSIVE DamageWithoutTarget(_)
DamageWithoutTarget(log) ==
    IF log = <<>> THEN 0
    ELSE (IF Credited(Head(log)) /\ ~HasTarget(Head(log))
          THEN Head(log).after.total_damage - Head(log).before.total_damage
          ELSE 0)
         + DamageWithoutTarget(Tail(log))

C26_TruncatedNotifySkipped ==
    [][ (FrameAtCursor(2) /\ Len(CursorBody) < 16) =>
        /\ reader' = [reader EXCEPT
                !.frames_parsed = @ + 1,
                !.fragment_histogram = Bump(@, 2),
                !.resync_events = @ + 1]
        /\ yielded' = yielded
        /\ stack' = PastFrame
        /\ pc' = "parse" ]_vars

\* the 8-byte Notify with body "ab" was parsed, and the Notify behind it
\* was found at offset 8 and yielded
C26_Witness ==
    /\ pc = "done"
    /\ data = <<0, 0, 0, 8, 0, 2, 97, 98>> \o NB
    /\ Len(visited) = 2
    /\ visited[1].offset = 0 /\ ~visited[1].emitted
    /\ visited[2].offset = 8 /\ visited[2].emitted
    /\ reader.frames_parsed = 2
    /\ reader.fragment_histogram[2] = 2
    /\ reader.resync_events = 1
    /\ reader.notify_frames = 1

\* the capture holds, at this offset, the header of a Notify frame whose
\* routing fields are those of the NotifyFrame
HeaderInCapture(frame) ==
    /\ frame.offset + 6 <= Len(data)
    /\ ~DeclaredLengthFails(data, frame.offset)
    /\ U16BE(data, frame.offset + 4) % 32768 = 2
    /\ LET body == Slice(data, frame.offset + 6, frame.offset + U32BE(data, frame.offset)) IN
       /\ Len(body) >= 16
       /\ Slice(body, 0, 8) = frame.service_uid
       /\ Slice(body, 8, 12) = frame.stub_id
       /\ Slice(body, 12, 16) = frame.method_id

\* C27: for every NotifyFrame yielded, the frames reached through FrameDown
\* carriers included, frame.offset is the byte offset of that frame's
\* 6-byte header in the capture buffer given to iter_notify_frames.
C27_OffsetInOuterBuffer ==
    \A i \in 1..Len(yielded) : HeaderInCapture(yielded[i])

\* a frame found in the nested stream of an uncompressed carrier that
\* stands behind another frame was yielded with its offset in that stream
C27_Witness ==
    /\ data = NA \o FrameDownBytes(0, 1, NA \o NB)
    /\ Len(yielded) = 3
    /\ EmittedVisits[3].depth = 2
    /\ yielded[3].stub_id = <<0, 0, 0, 2>>
    /\ yielded[3].offset = Len(NA)
    /\ HeaderInCapture([yielded[3] EXCEPT !.offset = Len(NA) + 10 + Len(NA)])

\* the decompressor is given a flagged, non-empty payload without the magic
FlaggedWithoutMagic(payload) ==
    /\ CursorFlagged
    /\ payload # <<>>
    /\ ~StartsWith(payload, ZSTD_MAGIC)

\* C29: a payload that is flagged, non-empty and does not begin with
\* 28 B5 2F FD comes back unchanged and undecompressed, for one more
\* zstd_flag_without_magic and no resync event: the Notify is yielded with
\* the raw payload and was_compressed false, the FrameDown's raw stream is
\* parsed as nested frames.
C29_FlagWithoutMagic ==
    /\ [][ (FrameAtCursor(2) /\ Len(CursorBody) >= 16
              /\ FlaggedWithoutMagic(NotifyPayload)) =>
            /\ reader' = [reader EXCEPT
                    !.frames_parsed = @ + 1,
                    !.fragment_histogram = Bump(@, 2),
                    !.zstd_flag_without_magic = @ + 1,
                    !.notify_frames = @ + 1]
            /\ yielded' = Append(yielded,
                    [service_uid |-> Slice(CursorBody, 0, 8),
                     stub_id |-> Slice(CursorBody, 8, 12),
                     method_id |-> Slice(CursorBody, 12, 16),
                     payload |-> NotifyPayload,
                     was_compressed |-> FALSE,
                     offset |-> Cur.offset]) ]_vars
    /\ [][ (FrameAtCursor(6) /\ Len(CursorBody) >= 4
              /\ FlaggedWithoutMagic(CarriedStream)) =>
            /\ reader' = [reader EXCEPT
                    !.frames_parsed = @ + 1,
                    !.fragment_histogram = Bump(@, 6),
                    !.zstd_flag_without_magic = @ + 1]
            /\ yielded' = yielded
            /\ stack' = Append(PastFrame, [view |-> CarriedStream, offset |-> 0]) ]_vars

\* a flagged Notify and a flagged FrameDown, both without the magic, were
\* parsed, and the frame carried by the FrameDown was yielded
C29_Witness ==
    /\ pc = "done"
    /\ data = NotifyFrameBytes(ZSTD_FLAG, SERVICE_UID, 8, Method(46), <<8, 1>>)
                \o FrameDownBytes(ZSTD_FLAG, 6, NB)
    /\ reader.zstd_flag_without_magic = 2
    /\ reader.resync_events = 0
    /\ Len(yielded) = 2
    /\ yielded[1].payload = <<8, 1>> /\ ~yielded[1].was_compressed
    /\ EmittedVisits[2].depth = 2

(***************************************************************************)
(* The extractor's maybe_decompress against the framer's _maybe_decompress *)
(***************************************************************************)
\* what FrameReader._maybe_decompress returns for the same arguments
FramerResult(bytes, flagged) == MaybeDecompress(NewReader, bytes, flagged)

DecompressCalled == call.fn = "maybe_decompress" /\ call.state # "called"

\* C28: maybe_decompress of the trading extractor obeys the contract of the
\* framer's _maybe_decompress: it returns the same bytes, never more than
\* 10 MiB, and on a decompression failure it returns its input instead of
\* raising, so that no FrameDown aborts extract_listing_blocks.
C28_SameContractAsFramer ==
    /\ trade.pc # "raised"
    /\ DecompressCalled =>
        /\ call.state = "returned"
        /\ call.result.size <= max_decompressed_size
        /\ call.result.data = FramerResult(call.args.data, call.args.is_zstd).data

\* a flagged frame that is corrupt behind its magic was given to
\* maybe_decompress, by a direct call or by extract_listing_blocks
C28_Witness ==
    \/ /\ DecompressCalled
       /\ call.args.is_zstd
       /\ StartsWith(call.args.data, ZSTD_MAGIC)
       /\ ZstdStream(call.args.data).error
    \/ trade.pc = "raised"

(***************************************************************************)
(* The trade-decode command's exit status; the scan after a failed decode  *)
(***************************************************************************)
CliExited == trade.via = "cli" /\ trade.pc = "exited"

\* C23: the trade-decode command ends with exit status 1 when no listings
\* were found (the V2 decoder and the V1 fallback both produced none) and
\* writes no output file then; it ends with status 0 only when at least one
\* listing was written.
C23_ExitStatus ==
    CliExited =>
        /\ trade.listings = <<>> => trade.exit_status = 1 /\ ~trade.written
        /\ trade.exit_status = 0 => trade.written /\ trade.result # <<>>

\* the command came to its end after the V2 decoder and then the V1
\* fallback found nothing in a capture that holds a frame
C23_Witness ==
    /\ CliExited
    /\ trade.decoder_choice = "v2" /\ trade.available /\ trade.decoder = "v1"
    /\ trade.data # <<>>
    /\ trade.listings = <<>>
    /\ trade.returned = 1

\* the scan stands at a 0x0A tag whose length fits, and what was cut there
\* does not decode: decode_message fails on the segment (V1), or
\* ParseFromString on the payload (V2)
ScanDecodeFails ==
    /\ Scanning
    /\ trade.nested[trade.idx + 1] = 10
    /\ ~ScanVarint.raised
    /\ ScanVarint.pos + ScanVarint.value <= Len(trade.nested)
    /\ LET end == ScanVarint.pos + ScanVarint.value IN
       \/ trade.decoder = "v1" /\ ~decode_message(Slice(trade.nested, trade.idx, end)).ok
       \/ trade.decoder = "v2" /\ ~ProtoParse(Slice(trade.nested, ScanVarint.pos, end)).ok

\* C30: when the segment found at a 0x0A tag fails to decode, the scan
\* cursor advances by one byte from that tag and the scan of the same block
\* continues from there.
C30_DecodeFailureAdvancesOneByte ==
    [][ ScanDecodeFails =>
            /\ trade'.pc = "scan"
            /\ trade'.nested = trade.nested
            /\ trade'.idx = trade.idx + 1 ]_vars

\* a 0x0A tag with a payload that is no protobuf message, followed by a block
C30_Witness ==
    /\ ScanDecodeFails
    /\ trade.idx = 0
    /\ Len(trade.nested) > 4

(***************************************************************************)
(* The reducer: summary(), and a line that is no JSON                      *)
(***************************************************************************)
\* max(0, end_time_ms - start_time_ms), and 0 when a timestamp is unset
ActiveMs(self) ==
    IF self.start_time_ms = NoneV \/ self.end_time_ms = NoneV THEN 0
    ELSE IF self.end_time_ms.v > self.start_time_ms.v
    THEN self.end_time_ms.v - self.start_time_ms.v
    ELSE 0

\* r is what summary() made of the reducer self
SummaryOf(self, r) ==
    LET duration == r.summary.active_duration_s
        dps == r.summary.dps
    IN  /\ SameNumber(duration, [num |-> ActiveMs(self), den |-> 1000])
        /\ ActiveMs(self) = 0 => SameNumber(dps, Rat(0))
        /\ ActiveMs(self) > 0 =>
              dps.num * duration.num = self.total_damage * dps.den * duration.den
        /\ ~IsNegative(duration)
        /\ ~IsNegative(dps)
        /\ r.self = self

\* C21: summary() reports active_duration_s = max(0, end_time_ms -
\* start_time_ms) / 1000, 0 if either timestamp is unset, and dps = 0 when
\* that duration is 0, otherwise total_damage / active_duration_s; neither
\* is ever negative, and the reducer is left as it was.
C21_SummaryDurationAndDps ==
    [][ /\ Called("summary") => SummaryOf(call.args.self, call'.result)
        /\ reducer.pc = "done" =>
              SummaryOf(reducer.self, [self |-> reducer'.self, summary |-> reducer'.summary])
      ]_vars

\* summary() was taken of a reducer with 1000 damage dealt in 1.5 s
C21_Witness ==
    /\ call.fn = "summary" /\ call.state = "returned"
    /\ call.args.self.total_damage = 1000
    /\ call.args.self.start_time_ms = IntV(1000)
    /\ call.args.self.end_time_ms = IntV(2500)
    /\ call.result.summary.active_duration_s = [num |-> 1500, den |-> 1000]
    /\ call.result.summary.dps = [num |-> 1000000, den |-> 1500]

AtMalformedLine == AtLine /\ CurrentLine.kind = "malformed"

\* C22: a non-blank line that is no JSON aborts the run: process_records
\* raises at that line, no later line is processed and reduce_file writes
\* no summary; a blank line is passed over and the run goes on.
C22_MalformedLineAborts ==
    [][ /\ AtMalformedLine =>
              /\ reducer' = [reducer EXCEPT !.pc = "raised"]
              /\ ~reducer'.written /\ reducer'.summary = <<>>
        /\ reducer.pc # "raised"
        /\ (AtLine /\ CurrentLine.kind = "blank") =>
              reducer' = [reducer EXCEPT !.line = @ + 1]
      ]_vars

\* the run was aborted at its third line, behind a blank line and a line
\* whose damage had been credited
C22_Witness ==
    /\ reducer.pc = "raised"
    /\ reducer.line = 3
    /\ reducer.lines[1].kind = "blank"
    /\ reducer.self.total_damage > 0
    /\ ~reducer.written

(***************************************************************************)
(* The item catalog: merging sources, and the cache of load_item_mapping   *)
(***************************************************************************)
\* the entries a source contributes: those its parser finds, and none when
\* the file is missing, cannot be read or is no JSON
ValidEntries(fs, path) ==
    IF FileAt(fs, path).kind = "missing" \/ LoadCandidate(fs, path).raised # "none"
    THEN <<>>
    ELSE LoadCandidate(fs, path).mapping

\* the place in paths of the last source with an entry for the id, or 0
LastWith(fs, paths, id) ==
    LET with == {i \in 1..Len(paths) : id \in DOMAIN ValidEntries(fs, paths[i])} IN
    IF with = {} THEN 0 ELSE CHOOSE i \in with : \A j \in with : j <= i

ItemIds == {7, 8, 9}

BuildCalled == call.fn = "build_mapping_from_sources" /\ call.state # "called"

\* C24: build_mapping_from_sources merges its sources left to right: every
\* item id gets the record of the last source, in the given order, that has
\* a valid entry for it; a file that is missing, unreadable, no valid JSON
\* or without entries is skipped and changes nothing.
C24_LastSourceWins ==
    BuildCalled =>
        /\ call.state = "returned"
        /\ DOMAIN call.result.mapping \subseteq ItemIds
        /\ \A id \in ItemIds :
            LET last == LastWith(call.args.fs, call.args.paths, id) IN
            IF last = 0
            THEN id \notin DOMAIN call.result.mapping
            ELSE /\ id \in DOMAIN call.result.mapping
                 /\ call.result.mapping[id] =
                        ValidEntries(call.args.fs, call.args.paths[last])[id]

\* the function was given a good source and then a file that is no UTF-8
C24_Witness ==
    /\ BuildCalled
    /\ Len(call.args.paths) = 2
    /\ call.args.fs[call.args.paths[1]] = SwordAndPotion
    /\ call.args.fs[call.args.paths[2]].kind = "not_utf8"

LoadsLogged == {i \in 1..Len(catalog.log) : catalog.log[i].op = "load"}

\* between the calls i and j the cache was cleared, or load_item_mapping was
\* called with another argument
Disturbed(i, j) ==
    \E k \in (i + 1)..(j - 1) :
        \/ catalog.log[k].op = "cache_clear"
        \/ catalog.log[k].op = "load" /\ catalog.log[k].arg # catalog.log[i].arg

\* C25: a second call of load_item_mapping with the same argument returns
\* the very object the first returned and looks at no file, whatever became
\* of the files in between; only cache_clear, or a call with another
\* argument, makes a later call read the files again.
C25_SecondCallIsCached ==
    \A i \in LoadsLogged, j \in LoadsLogged :
        (i < j /\ catalog.log[i].arg = catalog.log[j].arg /\ ~Disturbed(i, j)) =>
            /\ catalog.log[j].object = catalog.log[i].object
            /\ catalog.log[j].probed = 0

\* the mapping was loaded from a file, the file was deleted, and the second
\* call returned the first call's object with its entries
C25_Witness ==
    /\ Len(catalog.log) = 3
    /\ catalog.log[1].op = "load" /\ catalog.log[1].arg = TupleOf(<<CustomPath>>)
    /\ catalog.log[2].op = "unlink" /\ catalog.log[2].arg = TupleOf(<<CustomPath>>)
    /\ catalog.log[3].op = "load" /\ catalog.log[3].arg = TupleOf(<<CustomPath>>)
    /\ catalog.log[3].object = catalog.log[1].object
    /\ catalog.fs[CustomPath].kind = "missing"
    /\ DOMAIN catalog.heap[catalog.log[3].object] # {}

(***************************************************************************)
(* The reducer's timestamps.                                               *)
(***************************************************************************)
\* the step is a call of _process_damage that credits its entry
CreditStep == AtDamage /\ reducer'.self.hits = reducer.self.hits + 1

\* what a step may do to start_time_ms and end_time_ms
TimingStep ==
    LET before == reducer.self
        after == reducer'.self
        timed == before.current_server_time_ms # NoneV
    IN  /\ before.start_time_ms # NoneV => after.start_time_ms = before.start_time_ms
        /\ CreditStep /\ timed =>
              /\ after.end_time_ms = before.current_server_time_ms
              /\ before.start_time_ms = NoneV =>
                    after.start_time_ms = before.current_server_time_ms
        /\ CreditStep /\ ~timed =>
              /\ after.total_damage > before.total_damage
              /\ after.start_time_ms = before.start_time_ms
              /\ after.end_time_ms = before.end_time_ms
        /\ ~CreditStep =>
              /\ after.start_time_ms = before.start_time_ms
              /\ after.end_time_ms = before.end_time_ms

StartIffEnd ==
    (reducer.self.start_time_ms = NoneV) <=> (reducer.self.end_time_ms = NoneV)

\* C31: start_time_ms is set to current_server_time_ms by the first
\* credited damage entry handled while current_server_time_ms is set and
\* never changes afterwards; end_time_ms is set to current_server_time_ms by
\* every credited entry handled while it is set; an entry credited before
\* any SyncServerTime adds to total_damage and touches neither timestamp;
\* start_time_ms is set exactly when end_time_ms is.
C31_Timing ==
    /\ [](reducer # ReducerIdle => StartIffEnd)
    /\ [][reducer # ReducerIdle => TimingStep]_vars

\* damage was credited before any time sync, then at 1000, then at 3000:
\* start_time_ms kept the first time, end_time_ms has the last
C31_Witness ==
    /\ \E h \in Handled :
          /\ Credited(h) /\ h.before.current_server_time_ms = NoneV
          /\ h.after.end_time_ms = NoneV
    /\ \E h \in Handled :
          /\ Credited(h) /\ h.before.current_server_time_ms = IntV(3000)
          /\ h.before.start_time_ms = IntV(1000) /\ h.before.end_time_ms = IntV(1000)
          /\ h.after.start_time_ms = IntV(1000) /\ h.after.end_time_ms = IntV(3000)

(***************************************************************************)
(* The reducer's skill buckets.                                            *)
(***************************************************************************)
OwnerId(h) == parse_int(Get(h.damage, "owner_id"))

HitEventId(h) == parse_int(Get(h.damage, "hit_event_id"))

\* the key the entry's skill goes by: owner_id when it parses, else hit_event_id
SkillKey(h) ==
    IF OwnerId(h) # NoneV THEN DecimalStr(OwnerId(h).v) ELSE DecimalStr(HitEventId(h).v)

\* the bucket under key, a fresh one when there is none yet
BucketAt(buckets, key) ==
    IF key \in DOMAIN buckets
    THEN buckets[key] ELSE [damage |-> 0, hits |-> 0, crits |-> 0]

\* buckets2 is buckets with the entry's credit added under key
BucketCredited(h, buckets, buckets2, key) ==
    /\ DOMAIN buckets2 = DOMAIN buckets \cup {key}
    /\ \A k \in DOMAIN buckets : k # key => buckets2[k] = buckets[k]
    /\ buckets2[key].damage
          = BucketAt(buckets, key).damage + (h.after.total_damage - h.before.total_damage)
    /\ buckets2[key].hits = BucketAt(buckets, key).hits + 1
    /\ buckets2[key].crits
          = BucketAt(buckets, key).crits + (h.after.crits - h.before.crits)

\* C32: for every credited damage entry the skill bucket key is the decimal
\* string of owner_id whenever owner_id parses, and of hit_event_id only
\* when owner_id is absent; the bucket under that key gets the entry's
\* damage, one hit and its crit exactly when one of the two is present, and
\* no skill bucket is touched otherwise.
C32_SkillBucketKey ==
    \A h \in Handled :
        IF Credited(h) /\ (OwnerId(h) # NoneV \/ HitEventId(h) # NoneV)
        THEN BucketCredited(h, h.before.skill_buckets, h.after.skill_buckets, SkillKey(h))
        ELSE h.after.skill_buckets = h.before.skill_buckets

\* an entry with owner_id 0 and no hit_event_id has been credited
C32_Witness ==
    \E h \in Handled :
        /\ Credited(h)
        /\ OwnerId(h) = IntV(0)
        /\ ~Has(h.damage, "hit_event_id")
        /\ h.after.total_damage = h.before.total_damage + 8

(***************************************************************************)
(* The player's uuid.                                                      *)
(***************************************************************************)
AtRecord(message_type) ==
    /\ reducer # ReducerIdle
    /\ reducer.line <= Len(reducer.lines)
    /\ CurrentLine.kind = "json"
    /\ IsStr(MessageType, message_type)

\* the path data.delta_info...: None where a key is missing or a value on
\* the way is no dict
Field(value, key) == IF value.t = "dict" THEN Get(value.v, key) ELSE NoneV

\* the uuid the record carries: delta_info.uuid when it parses, otherwise
\* delta_info.base_delta.uuid, None when neither parses
CarriedUuid ==
    LET delta_info == Field(DictV(RecordData), "delta_info") IN
    IF parse_int(Field(delta_info, "uuid")) # NoneV
    THEN parse_int(Field(delta_info, "uuid"))
    ELSE parse_int(Field(Field(delta_info, "base_delta"), "uuid"))

ToMeStep ==
    /\ AtRecord("blueprotobuf_package.SyncToMeDeltaInfo") /\ reducer.pc = "line" =>
          /\ reducer'.self.player_uuid
                = IF CarriedUuid # NoneV THEN CarriedUuid ELSE reducer.self.player_uuid
          /\ reducer'.handled = reducer.handled
    /\ AtRecord("blueprotobuf_package.SyncToMeDeltaInfo") /\ AtDamage =>
          /\ CarriedUuid # NoneV => reducer.self.player_uuid = CarriedUuid
          /\ reducer'.self.player_uuid = reducer.self.player_uuid
          /\ LET attacker_uuid == parse_int(Get(NextDamage.damage, "attacker_uuid")) IN
             attacker_uuid # NoneV /\ CarriedUuid # NoneV /\ attacker_uuid # CarriedUuid
                => reducer'.self = reducer.self

\* C33: on a SyncToMeDeltaInfo record player_uuid is updated before the
\* record's base_delta damage entries are processed, so the attribution
\* filter applied to them uses the uuid carried by the same record; the
\* uuid taken is delta_info.uuid when it parses, otherwise
\* delta_info.base_delta.uuid, and player_uuid is left as it was when
\* neither parses.
C33_PlayerUuidBeforeDamages == [][ToMeStep]_vars

\* the player was 9; a record carrying only base_delta.uuid "7" made it 7
\* before its own entries were handled: attacker 9 was rejected, attacker 7
\* credited
C33_Witness ==
    /\ AtRecord("blueprotobuf_package.SyncToMeDeltaInfo")
    /\ reducer.line = 2 /\ reducer.pass = 1
    /\ reducer.lines[1] = SyncToMeDeltaInfo(<<Item("uuid", IntV(9))>>)
    /\ Field(Field(DictV(RecordData), "delta_info"), "uuid") = NoneV
    /\ CarriedUuid = IntV(7)
    /\ reducer.pc = "damages" /\ reducer.pending = <<>>
    /\ \E h \in Handled :
          h.before.player_uuid = IntV(7) /\ AttackerOf(h) = IntV(9) /\ h.after = h.before
    /\ \E h \in Handled :
          h.before.player_uuid = IntV(7) /\ AttackerOf(h) = IntV(7) /\ Credited(h)

(***************************************************************************)
(* The server time.                                                        *)
(***************************************************************************)
\* the integers whose decimal strings the inputs are compared with
Numerals == (0 - 5)..130 \cup {1000, 3000}

\* the string writes the integer n in decimal, with or without a leading zero
Writes(string, n) ==
    \/ string = DecimalStr(n)
    \/ n >= 0 /\ string = "0" \o DecimalStr(n)

\* the tolerant parser as described: an int is itself, a bool is 0 or 1, a
\* decimal string is its integer, anything else is unknown
Tolerant(value) ==
    CASE value.t = "int" -> value
      [] value.t = "bool" -> IntV(IF value.v THEN 1 ELSE 0)
      [] value.t = "str" /\ (\E n \in Numerals : Writes(value.v, n)) ->
            IntV(CHOOSE n \in Numerals : Writes(value.v, n))
      [] OTHER -> NoneV

ServerTimeStep ==
    /\ Called("parse_int") =>
          call'.state = "returned" /\ call'.result = Tolerant(call.args.value)
    /\ AtRecord("blueprotobuf_package.SyncServerTime") /\ reducer.pc = "line" =>
          LET server == Tolerant(Field(DictV(RecordData), "server_milliseconds"))
              client == Tolerant(Field(DictV(RecordData), "client_milliseconds"))
          IN  reducer'.self =
                 [reducer.self EXCEPT !.current_server_time_ms =
                     IF server # NoneV THEN server
                     ELSE IF client # NoneV THEN client ELSE @]

\* C34: a SyncServerTime record sets current_server_time_ms to
\* server_milliseconds when that field parses as an integer, otherwise to
\* client_milliseconds when that parses, and leaves it as it was when
\* neither parses; it changes no other field of the reducer.  The tolerant
\* parser maps an int to itself, a bool to 0 or 1, a decimal string to its
\* integer and everything else to unknown.
C34_ServerTime == [][ServerTimeStep]_vars

\* a record with server_milliseconds "x" and client_milliseconds 3000 set
\* the time to 3000, damage was credited at that time, and then a record
\* whose two fields are "" and None left the time alone
C34_Witness ==
    /\ reducer # ReducerIdle
    /\ Len(reducer.lines) = 5 /\ reducer.line = 5 /\ reducer.pass = 1
    /\ reducer.pc = "line"
    /\ reducer.lines[2] = SyncServerTime(<<Item("server_milliseconds", StrV("x")),
                                           Item("client_milliseconds", IntV(3000))>>)
    /\ reducer.lines[4] = SyncServerTime(<<Item("server_milliseconds", StrV("")),
                                           Item("client_milliseconds", NoneV)>>)
    /\ reducer.self.current_server_time_ms = IntV(3000)
    /\ reducer.self.end_time_ms = IntV(3000)
    /\ reducer.self.total_damage > 0

(***************************************************************************)
(* The reducer's accumulators.                                             *)
(***************************************************************************)
RECURSIVE SumHits(_, _)
SumHits(buckets, keys) ==
    IF keys = {} THEN 0
    ELSE LET k == CHOOSE x \in keys : TRUE
         IN  buckets[k].hits + SumHits(buckets, keys \ {k})

HitsIn(buckets) == SumHits(buckets, DOMAIN buckets)

Ordered(counts, damage) ==
    0 <= counts.crits /\ counts.crits <= counts.hits /\ counts.hits <= damage

Accumulators ==
    LET self == reducer.self IN
    /\ Ordered(self, self.total_damage)
    /\ \A k \in DOMAIN self.skill_buckets :
          Ordered(self.skill_buckets[k], self.skill_buckets[k].damage)
    /\ \A k \in DOMAIN self.target_buckets :
          Ordered(self.target_buckets[k], self.target_buckets[k].damage)
    /\ HitsIn(self.skill_buckets) <= self.hits
    /\ HitsIn(self.target_buckets) <= self.hits

NeverLess ==
    /\ reducer'.self.total_damage >= reducer.self.total_damage
    /\ reducer'.self.hits >= reducer.self.hits
    /\ reducer'.self.crits >= reducer.self.crits
    /\ reducer'.self.hits > reducer.self.hits =>
          /\ reducer'.self.hits = reducer.self.hits + 1
          /\ reducer'.self.total_damage >= reducer.self.total_damage + 1

\* C38: after any sequence of records 0 <= crits <= hits <= total_damage
\* (every credit adds at least 1 damage and exactly 1 hit); total_damage,
\* hits and crits never decrease; in every skill and target bucket
\* crits <= hits <= damage; and the hits summed over skill_buckets, and
\* over target_buckets, never exceed the global hits.
C38_Accumulators ==
    /\ [](reducer # ReducerIdle => Accumulators)
    /\ [][reducer # ReducerIdle => NeverLess]_vars

\* crits below hits below total_damage, with credited entries that had no
\* skill id and credited entries that had no target
C38_Witness ==
    /\ reducer # ReducerIdle
    /\ 0 < reducer.self.crits
    /\ reducer.self.crits < reducer.self.hits
    /\ reducer.self.hits < reducer.self.total_damage
    /\ 0 < HitsIn(reducer.self.skill_buckets)
    /\ HitsIn(reducer.self.skill_buckets) < reducer.self.hits
    /\ 0 < HitsIn(reducer.self.target_buckets)
    /\ HitsIn(reducer.self.target_buckets) < reducer.self.hits
    /\ \E h \in Handled : raw_value_of(h.damage) = IntV(0 - 5) /\ h.after = h.before

(***************************************************************************)
(* What each kind of record may change.                                    *)
(***************************************************************************)
\* the line being read, or whose damage entries are being handled, is a
\* record of one of the three routed message types
Routed3 ==
    \/ AtRecord("blueprotobuf_package.SyncServerTime")
    \/ AtRecord("blueprotobuf_package.SyncToMeDeltaInfo")
    \/ AtRecord("blueprotobuf_package.SyncNearDeltaInfo")

Reading == reducer # ReducerIdle /\ reducer.pc \in {"line", "damages"}

FrameStep ==
    /\ Reading /\ reducer.line <= Len(reducer.lines) /\ CurrentLine.kind = "json"
          /\ ~Routed3
       => reducer'.self = reducer.self
    /\ Reading /\ AtRecord("blueprotobuf_package.SyncNearDeltaInfo") =>
          /\ reducer'.self.player_uuid = reducer.self.player_uuid
          /\ reducer'.self.current_server_time_ms = reducer.self.current_server_time_ms
    /\ reducer # ReducerIdle /\ reducer'.self.player_uuid # reducer.self.player_uuid =>
          AtRecord("blueprotobuf_package.SyncToMeDeltaInfo")

\* every line of the file is a record of another message type
OnlyUnrouted ==
    /\ reducer # ReducerIdle
    /\ reducer.lines # <<>>
    /\ \A i \in 1..Len(reducer.lines) :
          /\ reducer.lines[i].kind = "json"
          /\ \A t \in {"blueprotobuf_package.SyncServerTime",
                       "blueprotobuf_package.SyncToMeDeltaInfo",
                       "blueprotobuf_package.SyncNearDeltaInfo"} :
                ~IsStr(Get(reducer.lines[i].record, "message_type"), t)

UnroutedSummary ==
    OnlyUnrouted =>
        /\ reducer.self = CombatReducer
        /\ reducer.pc = "summarized" =>
              /\ reducer.summary.total_damage = 0
              /\ reducer.summary.hits = 0
              /\ reducer.summary.dps.num = 0

\* C39: a record whose message_type is none of SyncServerTime,
\* SyncToMeDeltaInfo and SyncNearDeltaInfo leaves every field of the
\* reducer as it was (a file of only such records gives total_damage 0,
\* hits 0 and dps 0); a SyncNearDeltaInfo record never changes player_uuid
\* or current_server_time_ms; player_uuid changes only on a
\* SyncToMeDeltaInfo record.
C39_FrameConditions == [](UnroutedSummary) /\ [][FrameStep]_vars

\* after a time sync and credited damage, a record of another message type
\* has been read and the run went on to its summary
C39_Witness ==
    /\ reducer # ReducerIdle
    /\ reducer.pc = "summarized" /\ reducer.passes = 1
    /\ Len(reducer.lines) = 3
    /\ IsStr(Get(reducer.lines[3].record, "message_type"),
             "blueprotobuf_package.SyncNearEntities")
    /\ reducer.self.player_uuid = IntV(7)
    /\ reducer.self.total_damage = 100
    /\ reducer.self.current_server_time_ms = IntV(1000)
    /\ reducer.summary.total_damage = 100

(***************************************************************************)
(* The depth of the framer's recursion.                                    *)
(***************************************************************************)
\* the nested streams _parse_stream has descended into and not yet left
Descent == IF stack = <<>> THEN 0 ELSE Len(stack) - 1

\* C35: the framer's recursion through nested FrameDown carriers is capped
\* at a fixed depth that does not depend on the input: no capture, however
\* deeply it nests FrameDown inside FrameDown, makes the parser descend
\* more than 8 levels.
C35_RecursionCapped == Descent <= 8

\* the parser stands in the innermost stream of a run of carriers nested
\* more than 8 deep, at the Notify frame it carries
C35_Witness ==
    /\ pc = "parse"
    /\ data = Nest(MaxNesting, NA)
    /\ Descent = MaxNesting
    /\ Descent > 8
    /\ Top(Machine).view = NA
    /\ Top(Machine).offset = 0
    /\ reader.frames_parsed = MaxNesting

(***************************************************************************)
(* The generator and its consumer.                                         *)
(***************************************************************************)
\* the positions examined so far that started a frame
FramesVisited ==
    {i \in 1..Len(visited) : ~DeclaredLengthFails(visited[i].view, visited[i].offset)}

\* a frame is in the consumer's hands: it is the last thing the parser
\* looked at, the cursor stands right behind it, and the counters count the
\* frames visited up to it
JustHanded ==
    pc = "handed" =>
        /\ visited # <<>> /\ LastVisit.emitted
        /\ LastVisit.depth = Len(stack)
        /\ Cur.view = LastVisit.view
        /\ Cur.offset = LastVisit.offset + U32BE(LastVisit.view, LastVisit.offset)
        /\ Handed.offset = LastVisit.offset
        /\ reader.frames_parsed = Cardinality(FramesVisited)
        /\ reader.notify_frames = Len(yielded)
        /\ Cardinality({i \in 1..Len(visited) : visited[i].emitted}) = Len(yielded)

PullStep ==
    /\ Len(yielded') > Len(yielded) =>
          pc' = "handed" /\ Len(yielded') = Len(yielded) + 1
    /\ pc = "handed" =>
          /\ reader' = reader /\ stack' = stack /\ yielded' = yielded
          /\ visited' = visited
          /\ pc' \in {"parse", "raised"}
          /\ \/ output' = output
             \/ /\ pc' = "parse"
                /\ Len(output') = Len(output) + 1
                /\ output'[Len(output')].stub_id = Handed.stub_id
    /\ pc = "raised" => vars' = vars
    /\ IsPrefix(output, output')

RECURSIVE SumCounts(_, _)
SumCounts(hist, keys) ==
    IF keys = {} THEN 0
    ELSE LET k == CHOOSE x \in keys : TRUE
         IN  hist[k] + SumCounts(hist, keys \ {k})

\* Counter[key]: 0 for a key never counted
CountOf(hist, key) == IF key \in DOMAIN hist THEN hist[key] ELSE 0

\* the low 15 bits of the packet type at a visited position
LowBits(e) == U16BE(e.view, e.offset + 4) % 32768

FlagSet(e) == U16BE(e.view, e.offset + 4) >= 32768

CountersAgree ==
    LET hist == reader.fragment_histogram IN
    /\ SumCounts(hist, DOMAIN hist) = reader.frames_parsed
    /\ reader.notify_frames = Len(yielded)
    /\ reader.notify_frames <= CountOf(hist, 2)
    /\ CountOf(hist, 2) <= reader.frames_parsed
    /\ \A k \in DOMAIN hist \cup {LowBits(visited[i]) : i \in FramesVisited} :
          CountOf(hist, k) = Cardinality({i \in FramesVisited : LowBits(visited[i]) = k})
    /\ \A i \in FramesVisited :
          /\ visited[i].emitted => LowBits(visited[i]) = 2
          /\ LowBits(visited[i]) = 2
                /\ U32BE(visited[i].view, visited[i].offset) >= 22 => visited[i].emitted

NoCounterDecreases ==
    /\ reader'.bytes_scanned >= reader.bytes_scanned
    /\ reader'.frames_parsed >= reader.frames_parsed
    /\ reader'.resync_events >= reader.resync_events
    /\ reader'.notify_frames >= reader.notify_frames
    /\ reader'.zstd_flag_without_magic >= reader.zstd_flag_without_magic
    /\ \A k \in DOMAIN reader.fragment_histogram :
          CountOf(reader'.fragment_histogram, k) >= reader.fragment_histogram[k]

\* C37: in every state reached while parsing any buffer the values of
\* fragment_histogram sum to frames_parsed; notify_frames is the number of
\* NotifyFrames yielded so far and is at most fragment_histogram[0x0002],
\* which is at most frames_parsed; the histogram key is the low 15 bits of
\* pkt_type, so the 0x8000 compression flag never changes the fragment type
\* a frame is counted or dispatched as; no counter ever decreases.
C37_CounterConsistency == [](CountersAgree) /\ [][NoCounterDecreases]_vars

\* a flagged Notify frame and an unflagged one were both counted under
\* fragment type 2 and both yielded, after a flagged carrier counted under 6
C37_Witness ==
    /\ \E i \in FramesVisited :
          FlagSet(visited[i]) /\ LowBits(visited[i]) = 2 /\ visited[i].emitted
    /\ \E i \in FramesVisited :
          ~FlagSet(visited[i]) /\ LowBits(visited[i]) = 2 /\ visited[i].emitted
    /\ \E i \in FramesVisited : FlagSet(visited[i]) /\ LowBits(visited[i]) = 6
    /\ CountOf(reader.fragment_histogram, 2) = 2
    /\ CountOf(reader.fragment_histogram, 6) = 1
    /\ reader.frames_parsed = 3

(***************************************************************************)
(* C40: iter_frames against the top-level walk of _parse_stream            *)
(***************************************************************************)
\* the frames the top-level activation of FrameReader._parse_stream visits
\* on a buffer, each as the tuple iter_frames would yield for it
RECURSIVE WalkFrom(_)
WalkFrom(a) ==
    IF ~LoopCond(a)
    THEN <<>>
    ELSE IF FramingMiss(a)
         THEN WalkFrom([a EXCEPT !.offset = @ + 1])
         ELSE <<[offset |-> a.offset,
                 length |-> Header(a).frame_len,
                 fragment_type |-> Header(a).fragment_type,
                 is_zstd |-> Header(a).is_zstd,
                 body |-> Body(a)]>>
              \o WalkFrom([a EXCEPT !.offset = FrameEnd(a)])

TopLevelWalk(bytes) == WalkFrom(Activation(bytes))

IterFramesReturned == call.fn = "iter_frames" /\ call.state = "returned"

\* C40: for every capture buffer, iter_frames visits exactly the sequence of
\* top-level frames (offset, length, fragment type, compression flag, body)
\* that the top-level walk of FrameReader._parse_stream visits: the same
\* framing-miss rule, the same advance rule, the same frame starts.
C40_SameTopLevelFrames ==
    IterFramesReturned => call.result = TopLevelWalk(call.args.data)

\* iter_frames has returned on 00 00 00 05 followed by a FrameDown carrier:
\* it took the four bytes for a frame of length 5, jumped into the carrier's
\* header and never yielded the carrier, which the top-level walk visits at
\* offset 4
C40_Witness ==
    /\ IterFramesReturned
    /\ call.args.data = <<0, 0, 0, 5>> \o FrameDownBytes(0, 1, <<10, 0>>)
    /\ call.result[1].offset = 0 /\ call.result[1].length = 5
    /\ \A i \in DOMAIN call.result : call.result[i].offset # 4
    /\ TopLevelWalk(call.args.data)[1].offset = 4
    /\ TopLevelWalk(call.args.data)[1].fragment_type = FRAMEDOWN_FRAGMENT

\* a declared length of 1 to 5 is a frame to iter_frames and a miss to
\* _parse_stream; on buffers where the walk of iter_frames meets no such
\* length the two agree
RECURSIVE MeetsShortLength(_, _)
MeetsShortLength(bytes, offset) ==
    /\ offset + 6 <= Len(bytes)
    /\ LET length == U32BE(bytes, offset) IN
       \/ length \in 1..5
       \/ MeetsShortLength(bytes, offset + (IF length = 0 \/ offset + length > Len(bytes) THEN 1 ELSE length))

C40_AgreeWithoutShortLengths ==
    IterFramesReturned /\ ~MeetsShortLength(call.args.data, 0)
        => call.result = TopLevelWalk(call.args.data)

====
